---------------------------- MODULE Spec2Model ----------------------------
(***************************************************************************)
(* Pump performance curve plotter: the curve interpolation engine of       *)
(* plotting.py, the point store of database.py and the plotting frame of   *)
(* main.py.                                                                *)
(*                                                                         *)
(* Numbers.  The program computes in double precision floats.  The model   *)
(* computes over exact rationals <<n, d>> (d > 0, lowest terms); the three *)
(* float values that are no rationals (+inf, -inf, nan) only arise in the  *)
(* parabola coefficient k = h / (q*q) at q = 0 and are kept as the kind of *)
(* k.  The one inexact operation is brentq, which the model bisects on the *)
(* lattice of the 50 test points (resolution 1/980 of a flow unit).        *)
(***************************************************************************)
EXTENDS Integers, Sequences, FiniteSets, TLC

(***************************************************************************)
(* Bounds of the model and constants of the program.                       *)
(***************************************************************************)
MaxCurves == 3          \* longest curves_data list handed to interpolate_curve
MaxNumPoints == 4       \* largest num_points argument of interpolate_curve
TestPoints == 50        \* np.linspace(q_min, q_max, 50), plotting.py:57

(***************************************************************************)
(* Exact rational arithmetic.                                              *)
(***************************************************************************)
RECURSIVE Gcd(_, _)
Gcd(a, b) == IF b = 0 THEN a ELSE Gcd(b, a % b)

Abs(x) == IF x < 0 THEN -x ELSE x

Sgn(x) == IF x > 0 THEN 1 ELSE IF x < 0 THEN -1 ELSE 0

Norm(n, d) ==
    LET g == Gcd(Abs(n), Abs(d))
    IN  IF d < 0 THEN <<-(n \div g), -(d \div g)>> ELSE <<n \div g, d \div g>>

R(n) == <<n, 1>>

\* float('nan'), the quotient 0/0
FloatNaN == <<0, 0>>

RAdd(x, y) ==
    LET g == Gcd(x[2], y[2])
    IN  Norm(x[1] * (y[2] \div g) + y[1] * (x[2] \div g), x[2] * (y[2] \div g))

RNeg(x) == <<-x[1], x[2]>>

RSub(x, y) == RAdd(x, RNeg(y))

RMul(x, y) ==
    LET a == Norm(x[1], y[2])
        b == Norm(y[1], x[2])
    IN  <<a[1] * b[1], a[2] * b[2]>>

RDiv(x, y) == RMul(x, IF y[1] < 0 THEN <<-y[2], -y[1]>> ELSE <<y[2], y[1]>>)

RSgn(x) == Sgn(x[1])

\* The product a*b of two naturals below 2^31 as three digits, most
\* significant first, the lower two in base 2^15: comparisons of products
\* never leave the 32 bit integers of the checker.
Word == 2^15

Mul2(a, b) ==
    LET p0 == (a % Word) * (b % Word)
        p1 == (a \div Word) * (b % Word) + (a % Word) * (b \div Word) + (p0 \div Word)
        p2 == (a \div Word) * (b \div Word) + (p1 \div Word)
    IN  <<p2, p1 % Word, p0 % Word>>

\* sign of a*b - c*d for naturals a, b, c, d
CmpProd(a, b, c, d) ==
    LET x == Mul2(a, b)
        y == Mul2(c, d)
    IN  IF x[1] # y[1] THEN Sgn(x[1] - y[1])
        ELSE IF x[2] # y[2] THEN Sgn(x[2] - y[2])
        ELSE Sgn(x[3] - y[3])

\* sign of x - y
RCmp(x, y) ==
    IF RSgn(x) # RSgn(y) THEN Sgn(RSgn(x) - RSgn(y))
    ELSE IF RSgn(x) = 0 THEN 0
    ELSE RSgn(x) * CmpProd(Abs(x[1]), y[2], Abs(y[1]), x[2])

RLt(x, y) == RCmp(x, y) < 0

RLe(x, y) == RCmp(x, y) <= 0

\* an array of integers as an array of rationals
RSeq(s) == [i \in 1..Len(s) |-> R(s[i])]

RECURSIVE SeqMin(_)
SeqMin(s) ==
    IF Len(s) = 1 THEN s[1]
    ELSE LET m == SeqMin(Tail(s)) IN IF RLe(s[1], m) THEN s[1] ELSE m

RECURSIVE SeqMax(_)
SeqMax(s) ==
    IF Len(s) = 1 THEN s[1]
    ELSE LET m == SeqMax(Tail(s)) IN IF RLe(m, s[1]) THEN s[1] ELSE m

\* np.linspace(lo, hi, n)[i], i from 0
linspace(lo, hi, n, i) ==
    IF n = 1 THEN lo
    ELSE RAdd(lo, RMul(Norm(i, n - 1), RSub(hi, lo)))

(***************************************************************************)
(* interpolate.interp1d(x, y, kind='slinear', fill_value='extrapolate'):   *)
(* the piecewise linear interpolant through the points, its end segments   *)
(* extended beyond the data.  The constructor raises ValueError for fewer  *)
(* than two points.  x is strictly ascending.                              *)
(***************************************************************************)
Interp1dRaises(x) == Len(x) < 2

\* the index i of the segment [x[i], x[i+1]] used at q
RECURSIVE SegmentFrom(_, _, _)
SegmentFrom(x, q, i) ==
    IF i >= Len(x) - 1 THEN Len(x) - 1
    ELSE IF RLe(q, x[i + 1]) THEN i
    ELSE SegmentFrom(x, q, i + 1)

interp1d(x, y, q) ==
    LET i == SegmentFrom(x, q, 1)
    IN  RAdd(y[i], RMul(RSub(y[i + 1], y[i]),
                        RDiv(RSub(q, x[i]), RSub(x[i + 1], x[i]))))

(***************************************************************************)
(* find_parabola_intersection(flow_arr, head_arr, k)                       *)
(***************************************************************************)
NaN == 2        \* the sign of a residual that is nan

\* a coefficient that is nan for every q_lower = 0, which skips the sample
ParabolaKZeroGuarded(h_lower, q_lower) ==
    IF RSgn(q_lower) # 0
    THEN [kind |-> "fin", val |-> RDiv(h_lower, RMul(q_lower, q_lower))]
    ELSE [kind |-> "nan", val |-> R(0)]

\* k = h_lower / (q_lower * q_lower) in float arithmetic: a division by a
\* zero q_lower gives +inf, -inf or nan and a warning, no exception
ParabolaK(h_lower, q_lower) ==
    IF RSgn(q_lower) # 0
    THEN [kind |-> "fin", val |-> RDiv(h_lower, RMul(q_lower, q_lower))]
    ELSE IF RSgn(h_lower) > 0 THEN [kind |-> "inf", val |-> R(0)]
    ELSE IF RSgn(h_lower) < 0 THEN [kind |-> "ninf", val |-> R(0)]
    ELSE [kind |-> "nan", val |-> R(0)]

\* sign of u - k*q*q for rationals u = curve_interp(q), k and q
FiniteResidualSign(u, k, q) ==
    IF RSgn(k) = 0 \/ RSgn(q) = 0 THEN RSgn(u)
    ELSE IF RSgn(u) # RSgn(k) THEN Sgn(RSgn(u) - RSgn(k))
    ELSE LET l == Mul2(Abs(u[1]) * k[2], q[2] * q[2])
             r == Mul2(Abs(k[1]) * u[2], q[1] * q[1])
         IN  RSgn(u) * (IF l[1] # r[1] THEN Sgn(l[1] - r[1])
                        ELSE IF l[2] # r[2] THEN Sgn(l[2] - r[2])
                        ELSE Sgn(l[3] - r[3]))

\* sign of residual(q), or NaN
ResidualSign(flow_arr, head_arr, k, q) ==
    IF k.kind = "inf"
    THEN IF RSgn(q) = 0 THEN 0 ELSE RSgn(interp1d(flow_arr, head_arr, q))
    ELSE IF k.kind = "nan" THEN NaN
    ELSE IF k.kind = "ninf" THEN (IF RSgn(q) = 0 THEN NaN ELSE 1)
    ELSE FiniteResidualSign(interp1d(flow_arr, head_arr, q), k.val, q)

\* r1 * r2 <= 0, false when either is nan
SignChange(r1, r2) == r1 # NaN /\ r2 # NaN /\ r1 * r2 <= 0

\* test_points[i], i from 0: the grid over [q_min, q_max] = [min, 1.05 * max]
TestPoint(q_min, q_max, i) == linspace(q_min, q_max, TestPoints, i)

\* the number of lattice cells of one bracket: the lattice on which brentq
\* is bisected has the resolution 1/980 of the grid of integer flows
BracketCells(a, b) ==
    LET w == RMul(RSub(b, a), R(20 * (TestPoints - 1)))
    IN  IF w[2] = 1 /\ w[1] >= 1 THEN w[1] ELSE 1

\* the bisection of the lattice points lo..hi of the bracket [a, b], ra the
\* sign of the residual at lo
RECURSIVE Bisect(_, _, _, _, _, _, _, _, _)
Bisect(flow_arr, head_arr, k, a, b, cells, ra, lo, hi) ==
    LET m == RAdd(a, RMul(Norm((lo + hi) \div 2, cells), RSub(b, a)))
        rm == ResidualSign(flow_arr, head_arr, k, m)
    IN  CASE hi - lo <= 1 -> RAdd(a, RMul(Norm(lo, cells), RSub(b, a)))
          [] rm = 0 -> m
          [] rm = ra -> Bisect(flow_arr, head_arr, k, a, b, cells, ra, (lo + hi) \div 2, hi)
          [] OTHER -> Bisect(flow_arr, head_arr, k, a, b, cells, ra, lo, (lo + hi) \div 2)

\* brentq(residual, a, b) for residual(a) * residual(b) <= 0, ra and rb the
\* signs of the residual at a and b: an end point where the residual is
\* zero, else a point of the bracket across which the residual changes sign
brentq(flow_arr, head_arr, k, a, b, ra, rb) ==
    IF ra = 0 THEN a
    ELSE IF rb = 0 THEN b
    ELSE Bisect(flow_arr, head_arr, k, a, b, BracketCells(a, b), ra, 0, BracketCells(a, b))

\* the None that find_parabola_intersection returns, line 70
NoIntersection == <<>>

\* lines 64-66 for the pair of test points a, b
Intersection(flow_arr, head_arr, k, a, b, ra, rb) ==
    CHOOSE found \in
        { <<q_intersection, interp1d(flow_arr, head_arr, q_intersection)>>
          : q_intersection \in {brentq(flow_arr, head_arr, k, a, b, ra, rb)} } : TRUE

\* None as an index
NoIdx == 0 - 1

\* the signs of residual(test_points[i]), i from 0
ResidualSigns(flow_arr, head_arr, k, q_min, q_max) ==
    [i \in 0..(TestPoints - 1) |->
        ResidualSign(flow_arr, head_arr, k, TestPoint(q_min, q_max, i))]

\* the loop of lines 58-68 from the pair i (from 0) of test points on: the
\* first pair with r1 * r2 <= 0, or NoIdx
FirstSignChange(signs, i) ==
    LET changes == {j \in i..(TestPoints - 2) : SignChange(signs[j], signs[j + 1])}
    IN  IF changes = {} THEN NoIdx
        ELSE CHOOSE j \in changes : \A l \in changes : j <= l

\* flow_arr, head_arr: arrays of rationals with at least two points
find_parabola_intersection(flow_arr, head_arr, k) ==
    CHOOSE found \in
        { IF FirstSignChange(signs, 0) = NoIdx THEN NoIntersection
          ELSE Intersection(flow_arr, head_arr, k,
                            TestPoint(q[1], q[2], FirstSignChange(signs, 0)),
                            TestPoint(q[1], q[2], FirstSignChange(signs, 0) + 1),
                            signs[FirstSignChange(signs, 0)],
                            signs[FirstSignChange(signs, 0) + 1])
          : <<q, signs>> \in
              { <<qq, ResidualSigns(flow_arr, head_arr, k, qq[1], qq[2])>>
                : qq \in {<<SeqMin(flow_arr), RMul(Norm(105, 100), SeqMax(flow_arr))>>} } }
        : TRUE

(***************************************************************************)
(* The state.  curves_data, trim_diameters, target_diameter and num_points *)
(* are the caller's arguments of one interpolate_curve call; the variables *)
(* after them are the locals of the call.  A curve is the dict that        *)
(* get_curve_data returns: arrays flow, head, power and rpm.               *)
(***************************************************************************)
VARIABLES
    curves_data,            \* the caller's list of curve dicts
    trim_diameters,         \* the caller's list of trim diameters
    target_diameter,
    num_points,
    pc,                     \* "call", "prepare", "sample", "finish", "done"
    sorted_trims,           \* trim_diameters after line 98
    sorted_curves,          \* curves_data after line 99
    upper_idx,              \* index into the sorted lists, from 0
    lower_idx,
    factor,
    sample,                 \* number of lower_flow_samples already visited
    intersections,          \* what find_parabola_intersection returned, per visited sample
    interpolated_flow,
    interpolated_head,
    power_points_lower,
    power_points_upper,
    outcome,                \* "pending", "None", "curve" or "ValueError"
    result,                 \* the returned dict when outcome = "curve"
    curve_points,           \* the table curve_points: the rows of each pump_curve_id
    last_smoothed_curves,   \* PlottingFrame._last_smoothed_curves
    last_smoothed_trims,    \* PlottingFrame._last_smoothed_trims
    interpolated_curves,    \* PlottingFrame.interpolated_curves
    interp_checkboxes,      \* PlottingFrame.interp_checkboxes: <<diameter, checked>>
    ax_power,               \* the raw power markers on PlottingFrame.ax_power
    pressure_drop_entry,    \* the text of PlottingFrame.pressure_drop_entry
    power_limit_data,       \* PlottingFrame.power_limit_data
    ax_head,                \* the lines on PlottingFrame.ax_head
    pump_curves,            \* the table pump_curves, its rows in the order of their ids
    sqlite_sequence,        \* the largest id that AUTOINCREMENT gave to a row of pump_curves
    db_error,               \* the exception that the last add_pump_curve raised, or ""
    fpi_args,               \* flow_arr, head_arr, k of one find_parabola_intersection call
    fpi_i,                  \* i of the loop over the pairs of test points, line 58
    fpi_pc,                 \* "idle", "loop" or "returned"
    fpi_found,              \* what the call returned
    fpi_skipped,            \* the values of i at which the except clause was entered
    rpm_arg,                \* rpm of the _get_standard_frequency call
    closest                 \* closest of line 43, None before the line

interp_vars == <<curves_data, trim_diameters, target_diameter, num_points, pc,
                 sorted_trims, sorted_curves, upper_idx, lower_idx, factor, sample,
                 intersections, interpolated_flow, interpolated_head,
                 power_points_lower, power_points_upper, outcome, result>>

app_vars == <<curve_points, last_smoothed_curves, last_smoothed_trims,
              interpolated_curves, interp_checkboxes, ax_power,
              pressure_drop_entry, power_limit_data, ax_head>>

table_vars == <<pump_curves, sqlite_sequence, db_error>>

scan_vars == <<fpi_args, fpi_i, fpi_pc, fpi_found, fpi_skipped>>

freq_vars == <<rpm_arg, closest>>

vars == <<interp_vars, app_vars, table_vars, scan_vars, freq_vars>>

\* Python's None
None == <<>>

args == <<curves_data, trim_diameters, target_diameter, num_points>>

NoResult == [flow |-> <<>>, head |-> <<>>, power |-> <<>>, power_is_none |-> TRUE,
             rpm |-> R(0), trim_diameter |-> 0,
             interpolated_from |-> <<0, 0>>, factor |-> R(0)]

(***************************************************************************)
(* interpolate_curve, lines 96-136: the sort and the bracket               *)
(***************************************************************************)
\* sorted(range(n), key=trims, reverse=True): a stable insertion of index i
\* into the descending order of the indices before it
RECURSIVE InsertDesc(_, _, _)
InsertDesc(trims, order, i) ==
    IF order = <<>> THEN <<i>>
    ELSE IF trims[Head(order)] >= trims[i]
         THEN <<Head(order)>> \o InsertDesc(trims, Tail(order), i)
         ELSE <<i>> \o order

RECURSIVE SortOrderUpTo(_, _)
SortOrderUpTo(trims, n) ==
    IF n = 0 THEN <<>> ELSE InsertDesc(trims, SortOrderUpTo(trims, n - 1), n)

SortOrder(trims) == SortOrderUpTo(trims, Len(trims))

SortedTrims(trims) == [i \in 1..Len(trims) |-> trims[SortOrder(trims)[i]]]

SortedCurves(curves, trims) == [i \in 1..Len(trims) |-> curves[SortOrder(trims)[i]]]

\* a loop without the break of line 110: it visits every index from i on
BracketScanToEnd(trims, target, i, upper) ==
    LET above == {j \in i..(Len(trims) - 1) : trims[j + 1] >= target}
        below == {j \in i..(Len(trims) - 1) : trims[j + 1] <= target}
    IN  <<IF above = {} THEN upper ELSE CHOOSE j \in above : \A l \in above : l <= j,
          IF below = {} THEN NoIdx ELSE CHOOSE j \in below : \A l \in below : l <= j>>

\* the loop of lines 105-110 from index i (from 0) on, upper the upper_idx
\* so far: <<upper_idx, lower_idx>> when the loop ends
RECURSIVE BracketScan(_, _, _, _)
BracketScan(trims, target, i, upper) ==
    IF i >= Len(trims) THEN <<upper, NoIdx>>
    ELSE LET d == trims[i + 1]
             u == IF d >= target THEN i ELSE upper
         IN  IF d <= target THEN <<u, i>>
             ELSE BracketScan(trims, target, i + 1, u)

\* a fallback that takes the two largest trims for every unresolved target
BracketFallbackLargest(trims, target, b) ==
    IF b[1] = NoIdx \/ b[2] = NoIdx THEN <<0, 1>> ELSE b

\* lines 112-117
BracketFallback(trims, target, b) ==
    IF b[1] = NoIdx \/ b[2] = NoIdx
    THEN IF target > trims[1] THEN <<0, 1>>
         ELSE <<Len(trims) - 2, Len(trims) - 1>>
    ELSE b

\* a bracket left as the scan found it
BracketUnadjusted(b) == b

\* lines 119-124
BracketAdjust(b) ==
    IF b[1] = b[2]
    THEN IF b[1] > 0 THEN <<b[1] - 1, b[2]>> ELSE <<b[1], b[2] + 1>>
    ELSE b

\* <<upper_idx, lower_idx>> of the sorted trims (descending), lines 101-124
Bracket(trims, target) ==
    BracketAdjust(BracketFallback(trims, target, BracketScan(trims, target, 0, NoIdx)))

\* a factor of 0 for the degenerate bracket
BlendFactorZero(target, upper_d, lower_d) ==
    IF upper_d # lower_d THEN Norm(target - lower_d, upper_d - lower_d) ELSE R(0)

\* lines 133-136
BlendFactor(target, upper_d, lower_d) ==
    IF upper_d # lower_d
    THEN Norm(target - lower_d, upper_d - lower_d)
    ELSE Norm(1, 2)

upper_curve == sorted_curves[upper_idx + 1]
lower_curve == sorted_curves[lower_idx + 1]
upper_diameter == sorted_trims[upper_idx + 1]
lower_diameter == sorted_trims[lower_idx + 1]

locals_unset ==
    /\ sorted_trims = <<>> /\ sorted_curves = <<>>
    /\ upper_idx = NoIdx /\ lower_idx = NoIdx /\ factor = R(0)
    /\ sample = 0 /\ intersections = <<>>
    /\ interpolated_flow = <<>> /\ interpolated_head = <<>>
    /\ power_points_lower = <<>> /\ power_points_upper = <<>>
    /\ outcome = "pending" /\ result = NoResult

\* a sort in place, trim_diameters.sort(reverse=True)
TrimsSortedInPlace(trims) == SortedTrims(trims)

\* lines 97-99 bind the names trim_diameters and curves_data to new lists:
\* the lists of the caller after them
CallerTrims(trims) == trims

CallerCurves(curves, trims) == curves

\* lines 93-136
SelectBracket ==
    /\ pc = "call"
    /\ UNCHANGED <<freq_vars, scan_vars, table_vars, app_vars, target_diameter, num_points, sample, intersections,
                   interpolated_flow, interpolated_head,
                   power_points_lower, power_points_upper, result>>
    /\ IF Len(curves_data) < 2
       THEN /\ outcome' = "None"
            /\ pc' = "done"
            /\ UNCHANGED <<curves_data, trim_diameters,
                           sorted_trims, sorted_curves, upper_idx, lower_idx, factor>>
       ELSE LET trims == SortedTrims(trim_diameters)
                b == Bracket(trims, target_diameter)
            IN  /\ trim_diameters' = CallerTrims(trim_diameters)
                /\ curves_data' = CallerCurves(curves_data, trim_diameters)
                /\ sorted_trims' = trims
                /\ sorted_curves' = SortedCurves(curves_data, trim_diameters)
                /\ upper_idx' = b[1]
                /\ lower_idx' = b[2]
                /\ factor' = BlendFactor(target_diameter, trims[b[1] + 1], trims[b[2] + 1])
                /\ pc' = "prepare"
                /\ UNCHANGED outcome

(***************************************************************************)
(* interpolate_curve, lines 138-179: the samples of the lower curve        *)
(***************************************************************************)
\* lower_flow_samples[i], i from 0
LowerFlowSample(curve, n, i) ==
    linspace(SeqMin(curve.flow), SeqMax(curve.flow), n, i)

\* lines 138-148: interp1d raises ValueError for a lower curve of one point
PrepareSamples ==
    /\ pc = "prepare"
    /\ UNCHANGED <<freq_vars, scan_vars, table_vars, app_vars, args, sorted_trims, sorted_curves, upper_idx, lower_idx, factor,
                   sample, intersections, interpolated_flow, interpolated_head,
                   power_points_lower, power_points_upper, result>>
    /\ IF Interp1dRaises(lower_curve.flow)
       THEN outcome' = "ValueError" /\ pc' = "done"
       ELSE pc' = "sample" /\ UNCHANGED outcome

\* lines 151-163 for one q_lower: <<q_lower, h_lower, intersection>>
SampleIntersection(lower, upper, n, i) ==
    CHOOSE found \in
        { <<q_lower, h_lower,
            find_parabola_intersection(flow_arr, head_arr, ParabolaK(h_lower, q_lower))>>
          : q_lower \in {LowerFlowSample(lower, n, i)},
            h_lower \in {interp1d(lower.flow, lower.head,
                                  LowerFlowSample(lower, n, i))},
            flow_arr \in {upper.flow},
            head_arr \in {upper.head} } : TRUE

\* lines 171-172
Blend(lower_value, upper_value, f) == RAdd(lower_value, RMul(f, RSub(upper_value, lower_value)))

\* the blended points so far: interpolated_flow, interpolated_head,
\* power_points_lower and power_points_upper
NoBlended == [flow |-> <<>>, head |-> <<>>, points_lower |-> <<>>, points_upper |-> <<>>]

\* lines 165-179 for the sample s = <<q_lower, h_lower, intersection>>
BlendSample(acc, s, f) ==
    IF s[3] = NoIntersection THEN acc
    ELSE [flow |-> Append(acc.flow, Blend(s[1], s[3][1], f)),
          head |-> Append(acc.head, Blend(s[2], s[3][2], f)),
          points_lower |-> Append(acc.points_lower, s[1]),
          points_upper |-> Append(acc.points_upper, s[3][1])]

\* a loop that a failed intersection ends
BreakAfterFailedSample == "finish"

\* where the loop goes after a failed intersection, lines 165-166: continue
AfterFailedSample == "sample"

\* lines 150-179, one iteration; the interp1d of find_parabola_intersection
\* (line 35) raises ValueError for an upper curve of one point
SampleStep ==
    /\ pc = "sample"
    /\ sample < num_points
    /\ UNCHANGED <<freq_vars, scan_vars, table_vars, app_vars, args, sorted_trims, sorted_curves, upper_idx, lower_idx,
                   factor, result>>
    /\ IF Interp1dRaises(upper_curve.flow)
       THEN /\ outcome' = "ValueError"
            /\ pc' = "done"
            /\ UNCHANGED <<sample, intersections, interpolated_flow, interpolated_head,
                           power_points_lower, power_points_upper>>
       ELSE \E s \in {SampleIntersection(lower_curve, upper_curve, num_points, sample)} :
            \E acc \in {BlendSample([flow |-> interpolated_flow,
                                     head |-> interpolated_head,
                                     points_lower |-> power_points_lower,
                                     points_upper |-> power_points_upper], s, factor)} :
                /\ sample' = sample + 1
                /\ intersections' = Append(intersections, s[3])
                /\ interpolated_flow' = acc.flow
                /\ interpolated_head' = acc.head
                /\ power_points_lower' = acc.points_lower
                /\ power_points_upper' = acc.points_upper
                /\ pc' = IF s[3] = NoIntersection THEN AfterFailedSample ELSE "sample"
                /\ UNCHANGED outcome

EndOfSamples ==
    /\ pc = "sample"
    /\ sample >= num_points
    /\ pc' = "finish"
    /\ UNCHANGED <<freq_vars, scan_vars, table_vars, app_vars, args, sorted_trims, sorted_curves, upper_idx, lower_idx, factor,
                   sample, intersections, interpolated_flow, interpolated_head,
                   power_points_lower, power_points_upper, outcome, result>>

(***************************************************************************)
(* interpolate_curve, lines 181-230: the result                            *)
(***************************************************************************)
\* np.argsort(a): a is short, and numpy sorts short arrays by insertion,
\* which keeps equal values in their order
RECURSIVE InsertAsc(_, _, _)
InsertAsc(a, order, i) ==
    IF order = <<>> THEN <<i>>
    ELSE IF RLe(a[Head(order)], a[i])
         THEN <<Head(order)>> \o InsertAsc(a, Tail(order), i)
         ELSE <<i>> \o order

RECURSIVE ArgsortUpTo(_, _)
ArgsortUpTo(a, n) ==
    IF n = 0 THEN <<>> ELSE InsertAsc(a, ArgsortUpTo(a, n - 1), n)

\* the points left in the order of the samples
argsort_none(a) == [i \in 1..Len(a) |-> i]

argsort(a) == ArgsortUpTo(a, Len(a))

\* a[sort_idx]
Take(a, sort_idx) == [i \in 1..Len(sort_idx) |-> a[sort_idx[i]]]

RECURSIVE SeqSum(_)
SeqSum(s) == IF s = <<>> THEN R(0) ELSE RAdd(s[1], SeqSum(Tail(s)))

\* a.mean()
Mean(s) == RDiv(SeqSum(s), R(Len(s)))

\* an except clause that leaves an empty array for the power
InterpolatedPowerEmptied(lower, upper, points_lower, points_upper, f) ==
    IF Len(upper.power) > 0 /\ Len(lower.power) > 0
    THEN IF Interp1dRaises(upper.power) \/ Interp1dRaises(lower.power)
         THEN <<FALSE, <<>>>>
         ELSE <<FALSE,
                [i \in 1..Len(points_lower) |->
                    Blend(interp1d(SubSeq(lower.flow, 1, Len(lower.power)),
                                   lower.power, points_lower[i]),
                          interp1d(SubSeq(upper.flow, 1, Len(upper.power)),
                                   upper.power, points_upper[i]),
                          f)]>>
    ELSE <<TRUE, <<>>>>

\* lines 197-217: <<is None, array>>.  interp1d raises for a power array of
\* one reading, and the except clause sets the power to None
InterpolatedPower(lower, upper, points_lower, points_upper, f) ==
    IF Len(upper.power) > 0 /\ Len(lower.power) > 0
    THEN IF Interp1dRaises(upper.power) \/ Interp1dRaises(lower.power)
         THEN <<TRUE, <<>>>>
         ELSE <<FALSE,
                [i \in 1..Len(points_lower) |->
                    Blend(interp1d(SubSeq(lower.flow, 1, Len(lower.power)),
                                   lower.power, points_lower[i]),
                          interp1d(SubSeq(upper.flow, 1, Len(upper.power)),
                                   upper.power, points_upper[i]),
                          f)]>>
    ELSE <<TRUE, <<>>>>

\* the threshold of line 181
MinBlended == 3

\* a sort of the flow array alone
CurveResultFlowSortedAlone(flows, heads, points_lower, points_upper, lower, upper, f, target, lower_d, upper_d) ==
    LET sort_idx == argsort(flows)
        power == InterpolatedPower(lower, upper, points_lower, points_upper, f)
    IN  [flow |-> Take(flows, sort_idx),
         head |-> heads,
         power |-> power[2],
         power_is_none |-> power[1],
         rpm |-> RDiv(RAdd(Mean(upper.rpm), Mean(lower.rpm)), R(2)),
         trim_diameter |-> target,
         interpolated_from |-> <<lower_d, upper_d>>,
         factor |-> f]

\* lines 184-230
CurveResult(flows, heads, points_lower, points_upper, lower, upper, f, target, lower_d, upper_d) ==
    LET sort_idx == argsort(flows)
        power == InterpolatedPower(lower, upper, Take(points_lower, sort_idx),
                                   Take(points_upper, sort_idx), f)
    IN  [flow |-> Take(flows, sort_idx),
         head |-> Take(heads, sort_idx),
         power |-> power[2],
         power_is_none |-> power[1],
         rpm |-> RDiv(RAdd(Mean(upper.rpm), Mean(lower.rpm)), R(2)),
         trim_diameter |-> target,
         interpolated_from |-> <<lower_d, upper_d>>,
         factor |-> f]

\* lines 181-230
Finish ==
    /\ pc = "finish"
    /\ pc' = "done"
    /\ UNCHANGED <<freq_vars, scan_vars, table_vars, app_vars, args, sorted_trims, sorted_curves, upper_idx, lower_idx, factor,
                   sample, intersections, interpolated_flow, interpolated_head,
                   power_points_lower, power_points_upper>>
    /\ IF Len(interpolated_flow) < MinBlended
       THEN outcome' = "None" /\ UNCHANGED result
       ELSE /\ outcome' = "curve"
            /\ result' = CurveResult(interpolated_flow, interpolated_head,
                                     power_points_lower, power_points_upper,
                                     lower_curve, upper_curve, factor, target_diameter,
                                     lower_diameter, upper_diameter)

(***************************************************************************)
(* interpolate_curve as the one call of main.py                            *)
(***************************************************************************)
\* an uncaught ValueError of the call
Raised == [raised |-> "ValueError"]

\* lines 150-163 for every q_lower of lower_flow_samples
Samples(lower, upper, n) ==
    [i \in 1..n |-> SampleIntersection(lower, upper, n, i - 1)] \o <<>>

\* lines 165-179 for the samples from the sample i (from 0) on
RECURSIVE BlendSamples(_, _, _, _)
BlendSamples(samples, f, i, acc) ==
    IF i >= Len(samples) THEN acc
    ELSE BlendSamples(samples, f, i + 1, BlendSample(acc, samples[i + 1], f))

\* the loop of lines 150-179 from the sample i (from 0) on
BlendFrom(lower, upper, n, f, i, acc) ==
    CHOOSE blended \in
        { BlendSamples(samples, f, i, acc) : samples \in {Samples(lower, upper, n)} }
        : TRUE

\* lines 96-136: <<lower_curve, upper_curve, lower_diameter, upper_diameter, factor>>
BracketOf(curves, trims, target) ==
    LET st == SortedTrims(trims)
        sc == SortedCurves(curves, trims)
        b == Bracket(st, target)
    IN  <<sc[b[2] + 1], sc[b[1] + 1], st[b[2] + 1], st[b[1] + 1],
          BlendFactor(target, st[b[1] + 1], st[b[2] + 1])>>

\* the call: None, the returned dict, or Raised
interpolate_curve(curves, trims, target, n) ==
    IF Len(curves) < 2 THEN None
    ELSE CHOOSE returned \in
           { IF Interp1dRaises(br[1].flow) \/ (n > 0 /\ Interp1dRaises(br[2].flow))
             THEN Raised
             ELSE CHOOSE dict \in
                    { IF Len(acc.flow) < MinBlended THEN None
                      ELSE CurveResult(acc.flow, acc.head, acc.points_lower,
                                       acc.points_upper, br[1], br[2], br[5], target,
                                       br[3], br[4])
                      : acc \in {BlendFrom(br[1], br[2], n, br[5], 0, NoBlended)} }
                    : TRUE
             : br \in {BracketOf(curves, trims, target)} }
           : TRUE

(***************************************************************************)
(* main.py, _get_standard_frequency, lines 32-44                           *)
(***************************************************************************)
no_freq == rpm_arg = 0 /\ closest = None

\* lines 38-42
rpm_to_freq ==
    << <<3500, 60>>, <<2900, 50>>, <<1760, 60>>, <<1500, 50>>, <<1160, 60>>, <<950, 50>> >>

\* a min that returns the last of the entries with the least key
LastMin(rpm) ==
    CHOOSE i \in 1..Len(rpm_to_freq) :
        /\ \A j \in 1..Len(rpm_to_freq) :
              Abs(rpm_to_freq[i][1] - rpm) <= Abs(rpm_to_freq[j][1] - rpm)
        /\ \A j \in (i + 1)..Len(rpm_to_freq) :
              Abs(rpm_to_freq[i][1] - rpm) < Abs(rpm_to_freq[j][1] - rpm)

\* the index of min(rpm_to_freq, key=lambda x: abs(x[0] - rpm)), line 43: min
\* returns the first of the entries with the least key
FirstMin(rpm) ==
    CHOOSE i \in 1..Len(rpm_to_freq) :
        /\ \A j \in 1..Len(rpm_to_freq) :
              Abs(rpm_to_freq[i][1] - rpm) <= Abs(rpm_to_freq[j][1] - rpm)
        /\ \A j \in 1..(i - 1) :
              Abs(rpm_to_freq[i][1] - rpm) < Abs(rpm_to_freq[j][1] - rpm)

\* closest[1], line 44
get_standard_frequency(rpm) == rpm_to_freq[FirstMin(rpm)][2]

\* the call with rpm_arg, lines 43-44
StandardFrequency ==
    /\ closest = None
    /\ closest' = rpm_to_freq[FirstMin(rpm_arg)]
    /\ UNCHANGED <<rpm_arg, scan_vars, interp_vars, app_vars, table_vars>>

(***************************************************************************)
(* find_parabola_intersection, lines 56-70, one pair of test points a      *)
(* step.  The heads and k of a call are the rationals of fpi_args times    *)
(* its scale, 1 or 2^-600: a power of two, by which float arithmetic       *)
(* scales every residual exactly.                                          *)
(***************************************************************************)
no_scan ==
    /\ fpi_args = None /\ fpi_i = 0 /\ fpi_pc = "idle"
    /\ fpi_found = None /\ fpi_skipped = {}

\* the product of two finite residuals of the scale 2^-600 is below the
\* smallest float and rounds to a zero
Underflows(call) == call.scale = "2^-600" /\ call.k.kind \in {"fin", "inf"}

\* r1 * r2 <= 0 of line 63, in float arithmetic
ProductNotPositive(call, r1, r2) ==
    /\ r1 # NaN
    /\ r2 # NaN
    /\ SignChange(r1, r2) \/ Underflows(call)

\* brentq raises ValueError when f(a) and f(b) have the same sign
BrentqRaises(ra, rb) == ra # 0 /\ rb # 0 /\ ra = rb

\* the pairs taken from the last one down
PairDescending(i) == TestPoints - 2 - i

\* the pair test_points[i], test_points[i + 1] of the pass i of the loop
PairOrder(i) == i

\* an error that ends the call
ReturnAfterRaise(i) == [pc |-> "returned", i |-> i]

\* except: continue, lines 67-68
ContinueAfterRaise(i) == [pc |-> "loop", i |-> i + 1]

\* <<a, b, r1, r2>> of the pair p of the call
PairOf(call, p) ==
    CHOOSE pair \in
        { <<ab[1], ab[2], ResidualSign(call.flow_arr, call.head_arr, call.k, ab[1]),
            ResidualSign(call.flow_arr, call.head_arr, call.k, ab[2])>>
          : ab \in { <<TestPoint(q[1], q[2], p), TestPoint(q[1], q[2], p + 1)>>
                     : q \in {<<SeqMin(call.flow_arr),
                                RMul(Norm(105, 100), SeqMax(call.flow_arr))>>} } }
        : TRUE

\* one pass of the loop of lines 58-68
ScanPair ==
    /\ fpi_pc = "loop"
    /\ fpi_i <= TestPoints - 2
    /\ UNCHANGED <<freq_vars, interp_vars, app_vars, table_vars, fpi_args>>
    /\ \E pair \in {PairOf(fpi_args, PairOrder(fpi_i))} :
          IF ~ProductNotPositive(fpi_args, pair[3], pair[4])
          THEN /\ fpi_i' = fpi_i + 1
               /\ UNCHANGED <<fpi_pc, fpi_found, fpi_skipped>>
          ELSE IF BrentqRaises(pair[3], pair[4])
          THEN /\ fpi_skipped' = fpi_skipped \cup {fpi_i}
               /\ fpi_pc' = ContinueAfterRaise(fpi_i).pc
               /\ fpi_i' = ContinueAfterRaise(fpi_i).i
               /\ UNCHANGED fpi_found
          ELSE /\ fpi_found' = Intersection(fpi_args.flow_arr, fpi_args.head_arr, fpi_args.k,
                                            pair[1], pair[2], pair[3], pair[4])
               /\ fpi_pc' = "returned"
               /\ UNCHANGED <<fpi_i, fpi_skipped>>

\* return None, line 70
ScanEnd ==
    /\ fpi_pc = "loop"
    /\ fpi_i = TestPoints - 1
    /\ fpi_found' = NoIntersection
    /\ fpi_pc' = "returned"
    /\ UNCHANGED <<freq_vars, interp_vars, app_vars, table_vars, fpi_args, fpi_i, fpi_skipped>>

(***************************************************************************)
(* database.py: the tables pump_curves and curve_points.  The database     *)
(* outlives the program: StoredCurves are the rows of one pump at one      *)
(* speed, entered at the trims 8 and 10 in an earlier run.                 *)
(***************************************************************************)
StoredCurves ==
    << [id |-> 1, name |-> "P1", trim_diameter |-> 8, rpm |-> 1760],
       [id |-> 2, name |-> "P1", trim_diameter |-> 10, rpm |-> 1760] >>

stored_tables ==
    /\ pump_curves = StoredCurves
    /\ sqlite_sequence = Len(StoredCurves)
    /\ db_error = ""

CurveIds == {pump_curves[i].id : i \in 1..Len(pump_curves)}

\* get_curves_for_pump(name, rpm) with an rpm: ORDER BY trim_diameter DESC
get_curves_for_pump(name, rpm) ==
    LET rows == SelectSeq(pump_curves, LAMBDA row : row.name = name /\ row.rpm = rpm)
    IN  SortedCurves(rows, [i \in 1..Len(rows) |-> rows[i].trim_diameter])

\* get_curve_points(pump_curve_id): ORDER BY flow_gpm
get_curve_points(pump_curve_id) ==
    LET rows == curve_points[pump_curve_id]
    IN  CHOOSE points \in
          { Take(rows, sort_idx)
            : sort_idx \in {argsort([i \in 1..Len(rows) |-> rows[i].flow_gpm])} }
          : TRUE

\* the table after clear_curve_points(pump_curve_id)
clear_curve_points(table, pump_curve_id) == [table EXCEPT ![pump_curve_id] = <<>>]

\* the value that sqlite3 stores for a bound float or None: a NaN is stored
\* as NULL
Bound(v) == IF v = FloatNaN THEN None ELSE v

\* the values of line 144 as the columns hold them
Row(point) ==
    [flow_gpm |-> Bound(point.flow_gpm), head_ft |-> Bound(point.head_ft),
     power_hp |-> Bound(point.power_hp), rpm |-> Bound(point.rpm)]

\* NOT NULL of flow_gpm, head_ft and rpm refuses the row
NotNullViolated(point) ==
    Row(point).flow_gpm = None \/ Row(point).head_ft = None \/ Row(point).rpm = None

\* an INSERT of add_curve_points raises sqlite3.IntegrityError
AddRaises(points) == \E i \in 1..Len(points) : NotNullViolated(points[i])

\* the table after add_curve_points(pump_curve_id, points): an INSERT that
\* raises ends the call before the commit of line 146, and no row is kept
add_curve_points(table, pump_curve_id, points) ==
    IF AddRaises(points) THEN table
    ELSE [table EXCEPT ![pump_curve_id] = @ \o [i \in 1..Len(points) |-> Row(points[i])]]

VALID_RPMS == {1160, 1760, 3500}

MaxCurveId == 3         \* most rows ever inserted into pump_curves

\* the variables of the plotting frame
frame_vars == <<last_smoothed_curves, last_smoothed_trims, interpolated_curves,
                interp_checkboxes, ax_power, pressure_drop_entry, power_limit_data,
                ax_head>>

\* a table without the constraint
UniqueNotDeclared(table, name, trim_diameter, rpm) == FALSE

\* UNIQUE(name, trim_diameter, rpm) of pump_curves refuses the new row
UniqueViolated(table, name, trim_diameter, rpm) ==
    \E i \in 1..Len(table) :
        /\ table[i].name = name
        /\ table[i].trim_diameter = trim_diameter
        /\ table[i].rpm = rpm

\* add_pump_curve(name, trim_diameter, rpm): raises ValueError for an rpm
\* that is not valid and sqlite3.IntegrityError for a row that the table
\* refuses; else the row gets the id after the largest id ever given
add_pump_curve(name, trim_diameter, rpm) ==
    /\ UNCHANGED <<freq_vars, scan_vars, interp_vars, frame_vars>>
    /\ IF rpm \notin VALID_RPMS
       THEN /\ db_error' = "ValueError"
            /\ UNCHANGED <<pump_curves, sqlite_sequence, curve_points>>
       ELSE IF UniqueViolated(pump_curves, name, trim_diameter, rpm)
       THEN /\ db_error' = "IntegrityError"
            /\ UNCHANGED <<pump_curves, sqlite_sequence, curve_points>>
       ELSE /\ sqlite_sequence < MaxCurveId
            /\ db_error' = ""
            /\ pump_curves' = Append(pump_curves,
                                     [id |-> sqlite_sequence + 1, name |-> name,
                                      trim_diameter |-> trim_diameter, rpm |-> rpm])
            /\ sqlite_sequence' = sqlite_sequence + 1
            /\ curve_points' = [id \in CurveIds \cup {sqlite_sequence + 1} |->
                                   IF id \in CurveIds THEN curve_points[id] ELSE <<>>]

\* delete_pump_curve(curve_id): the row, and with ON DELETE CASCADE its points
delete_pump_curve(curve_id) ==
    /\ UNCHANGED <<freq_vars, scan_vars, interp_vars, frame_vars, sqlite_sequence>>
    /\ db_error' = ""
    /\ pump_curves' = SelectSeq(pump_curves, LAMBDA row : row.id # curve_id)
    /\ curve_points' = [id \in CurveIds \ {curve_id} |-> curve_points[id]]

(***************************************************************************)
(* plotting.get_curve_data                                                 *)
(***************************************************************************)
\* the readings that are not None, in the order of the points
RECURSIVE PowerReadings(_)
PowerReadings(points) ==
    IF points = <<>> THEN <<>>
    ELSE (IF Head(points).power_hp # None THEN <<Head(points).power_hp>> ELSE <<>>)
         \o PowerReadings(Tail(points))

\* a dict whose rpm array is filtered like the power array
CurveArraysRpmOfReadings(points) ==
    [flow |-> [i \in 1..Len(points) |-> points[i].flow_gpm],
     head |-> [i \in 1..Len(points) |-> points[i].head_ft],
     power |-> PowerReadings(points),
     rpm |-> [i \in 1..Len(PowerReadings(points)) |-> points[i].rpm]]

\* the dict of lines 14-19
CurveArrays(points) ==
    [flow |-> [i \in 1..Len(points) |-> points[i].flow_gpm],
     head |-> [i \in 1..Len(points) |-> points[i].head_ft],
     power |-> PowerReadings(points),
     rpm |-> [i \in 1..Len(points) |-> points[i].rpm]]

\* a get_curve_data without the sentinel: one point at the origin for a curve
\* without points
get_curve_data_unguarded(pump_curve_id) ==
    IF get_curve_points(pump_curve_id) = <<>>
    THEN [flow |-> <<R(0)>>, head |-> <<R(0)>>, power |-> <<>>, rpm |-> <<R(0)>>]
    ELSE CurveArrays(get_curve_points(pump_curve_id))

get_curve_data(pump_curve_id) ==
    CHOOSE data \in
      { IF points = <<>> THEN None ELSE CurveArrays(points)
        : points \in {get_curve_points(pump_curve_id)} }
      : TRUE

(***************************************************************************)
(* plotting.get_smoothed_curve_data(pump_curve_id, head_deg, power_deg):   *)
(* least-squares polynomials of head and of power over the flow, evaluated *)
(* on a uniform grid of flows over [min(flow), max(flow)].  The degree     *)
(* entries hold 1 and 1, and the fit is the least-squares line.            *)
(***************************************************************************)
SmoothPoints == 3       \* the size of the grid

head_deg == 1

power_deg == 1

RECURSIVE SumProducts(_, _)
SumProducts(x, y) ==
    IF x = <<>> THEN R(0)
    ELSE RAdd(RMul(x[1], y[1]), SumProducts(Tail(x), Tail(y)))

\* <<slope, intercept>> of the least-squares line through the points
\* (x[i], y[i]); the constant mean(y) when the x do not differ
PolyFitLine(x, y) ==
    LET n == R(Len(x))
        sx == SeqSum(x)
        sy == SeqSum(y)
        d == RSub(RMul(n, SumProducts(x, x)), RMul(sx, sx))
        slope == IF RSgn(d) = 0 THEN R(0)
                 ELSE RDiv(RSub(RMul(n, SumProducts(x, y)), RMul(sx, sy)), d)
    IN  <<slope, RDiv(RSub(sy, RMul(slope, sx)), n)>>

PolyVal(c, q) == RAdd(RMul(c[1], q), c[2])

\* the smoothed arrays of a curve dict
Smoothed(raw_data) ==
    CHOOSE smooth_data \in
      { [flow |-> grid,
         head |-> [i \in 1..SmoothPoints |-> PolyVal(head_fit, grid[i])],
         power |-> IF power_fit = None THEN <<>>
                   ELSE [i \in 1..SmoothPoints |-> PolyVal(power_fit, grid[i])],
         rpm |-> [i \in 1..SmoothPoints |-> rpm]]
        : grid \in {[i \in 1..SmoothPoints |->
                        linspace(SeqMin(raw_data.flow), SeqMax(raw_data.flow),
                                 SmoothPoints, i - 1)]},
          head_fit \in {PolyFitLine(raw_data.flow, raw_data.head)},
          power_fit \in {IF Len(raw_data.power) = 0 THEN None
                         ELSE PolyFitLine(SubSeq(raw_data.flow, 1, Len(raw_data.power)),
                                          raw_data.power)},
          rpm \in {Mean(raw_data.rpm)} }
      : TRUE

get_smoothed_curve_data(pump_curve_id, head_degree, power_degree) ==
    CHOOSE smooth_data \in
      { IF raw_data = None THEN None ELSE Smoothed(raw_data)
        : raw_data \in {get_curve_data(pump_curve_id)} }
      : TRUE

(***************************************************************************)
(* main.py, DataEntryFrame: parse_data and save_data.  The text of the     *)
(* text box is a sequence of lines and a line the sequence of its parts.   *)
(* The unit menus stay at GPM, ft and HP.                                  *)
(***************************************************************************)
\* a part that float() accepts, the empty part, and a part float() rejects
Num(v) == [text |-> "number", value |-> v]

Blank == [text |-> "", value |-> 0]

Junk == [text |-> "n/a", value |-> 0]

\* the text nan, which float() accepts
NanText == [text |-> "nan", value |-> 0]

IsFloat(part) == part.text \in {"number", "nan"}

float(part) == IF part.text = "nan" THEN FloatNaN ELSE R(part.value)

flow_factor == R(1)         \* FLOW_CONVERSIONS["GPM"]

head_factor == R(1)         \* HEAD_CONVERSIONS["ft"]

power_factor == R(1)        \* POWER_CONVERSIONS["HP"]

\* lines 237-258 for one line: the point it appends, or None
ParseLine(parts) ==
    IF Len(parts) < 5 THEN None
    ELSE IF ~IsFloat(parts[1]) THEN None
    ELSE IF \/ ~IsFloat(parts[2])
            \/ (parts[4].text # "" /\ ~IsFloat(parts[4]))
            \/ ~IsFloat(parts[5])
         THEN None
    ELSE [flow_gpm |-> RMul(float(parts[1]), flow_factor),
          head_ft |-> RMul(float(parts[2]), head_factor),
          power_hp |-> IF parts[4].text # "" THEN RMul(float(parts[4]), power_factor)
                       ELSE None,
          rpm |-> float(parts[5])]

RECURSIVE parse_data(_)
parse_data(text) ==
    IF text = <<>> THEN <<>>
    ELSE (IF ParseLine(Head(text)) = None THEN <<>> ELSE <<ParseLine(Head(text))>>)
         \o parse_data(Tail(text))

\* save_data with the curve current_curve_id selected (NoIdx: none selected)
\* and text in the text box; the clear of line 270 is committed before line
\* 271 adds the points
save_data(current_curve_id, text) ==
    /\ UNCHANGED <<freq_vars, scan_vars, interp_vars, frame_vars, pump_curves, sqlite_sequence>>
    /\ IF current_curve_id = NoIdx \/ parse_data(text) = <<>>
       THEN UNCHANGED <<curve_points, db_error>>
       ELSE /\ curve_points' =
                   add_curve_points(clear_curve_points(curve_points, current_curve_id),
                                    current_curve_id, parse_data(text))
            /\ db_error' = IF AddRaises(parse_data(text)) THEN "IntegrityError" ELSE ""

(***************************************************************************)
(* main.py, PlottingFrame.  The menus select the pump P1 at 1760 rpm, the  *)
(* trim checkboxes are all checked and the unit of the pressure drop is    *)
(* ft.  interpolate_curve is called with its default num_points, for which *)
(* the model takes MaxNumPoints.                                           *)
(***************************************************************************)
pump_name_menu == "P1"

rpm_menu == Num(1760)

\* _get_pressure_drop_ft, the unit menu at ft
get_pressure_drop_ft ==
    IF pressure_drop_entry.text = "" THEN R(0)
    ELSE IF ~IsFloat(pressure_drop_entry) THEN R(0)
    ELSE float(pressure_drop_entry)

\* the head loss taken off the first head value only
HeadLessAtShutOff(data, head_loss_ft) ==
    [data EXCEPT !.head = [i \in 1..Len(@) |->
                              IF i = 1 THEN RSub(@[i], head_loss_ft) ELSE @[i]]]

\* data with head - head_loss_ft
HeadLess(data, head_loss_ft) ==
    [data EXCEPT !.head = [i \in 1..Len(@) |-> RSub(@[i], head_loss_ft)]]

NoPlots == [curves |-> <<>>, trims |-> <<>>, markers |-> <<>>, raw_head |-> <<>>]

\* lines 653-657: the markers of the raw points, at raw_head_adj
HeadMarkers(raw_head, curve, raw_data, head_loss_ft) ==
    Append(raw_head, [trim_diameter |-> curve.trim_diameter,
                      flow |-> raw_data.flow,
                      head |-> HeadLess(raw_data, head_loss_ft).head])

\* lines 661-663: the markers of the raw power readings
PowerMarkers(markers, curve, raw_data) ==
    IF Len(raw_data.power) > 0
    THEN Append(markers, [trim_diameter |-> curve.trim_diameter,
                          flow |-> SubSeq(raw_data.flow, 1, Len(raw_data.power)),
                          power |-> raw_data.power])
    ELSE markers

\* lines 628-670, the loop from the curve i (from 1) on, plots the lists
\* smoothed_curves_data and smoothed_trim_diameters and the markers so far
RECURSIVE PlotTrims(_, _, _, _)
PlotTrims(curves, head_loss_ft, i, plots) ==
    IF i > Len(curves) THEN plots
    ELSE CHOOSE plotted \in
           { IF raw_data = None THEN PlotTrims(curves, head_loss_ft, i + 1, plots)
             ELSE IF smooth_data = None
                  THEN PlotTrims(curves, head_loss_ft, i + 1, plots)
             ELSE PlotTrims(curves, head_loss_ft, i + 1,
                      [curves |-> Append(plots.curves, HeadLess(smooth_data, head_loss_ft)),
                       trims |-> Append(plots.trims, curves[i].trim_diameter),
                       markers |-> PowerMarkers(plots.markers, curves[i], raw_data),
                       raw_head |-> HeadMarkers(plots.raw_head, curves[i], raw_data,
                                                head_loss_ft)])
             : raw_data \in {get_curve_data(curves[i].id)},
               smooth_data \in {get_smoothed_curve_data(curves[i].id, head_deg, power_deg)} }
           : TRUE

\* interp_data with interp_data['target_diameter'] = td
WithTargetDiameter(interp_data, td) ==
    [flow |-> interp_data.flow, head |-> interp_data.head, power |-> interp_data.power,
     power_is_none |-> interp_data.power_is_none, rpm |-> interp_data.rpm,
     trim_diameter |-> interp_data.trim_diameter,
     interpolated_from |-> interp_data.interpolated_from,
     factor |-> interp_data.factor, target_diameter |-> td]

\* lines 676-687: new_interp, and whether a call raised before line 687
Recomputed(old_curves, smoothed_curves_data, smoothed_trim_diameters) ==
    CHOOSE recomputed \in
      { IF \E idx \in 1..Len(calls) : calls[idx] = Raised
        THEN [raised |-> TRUE, new_interp |-> <<>>]
        ELSE [raised |-> FALSE,
              new_interp |->
                 [idx \in 1..Len(calls) |->
                     IF calls[idx] # None
                     THEN WithTargetDiameter(calls[idx], old_curves[idx].target_diameter)
                     ELSE old_curves[idx]]]
        : calls \in
            { [idx \in 1..Len(old_curves) |->
                  interpolate_curve(smoothed_curves_data, smoothed_trim_diameters,
                                    old_curves[idx].target_diameter, MaxNumPoints)] } }
      : TRUE

(***************************************************************************)
(* plot_curves, lines 705-784: the two deratings of a reference curve to   *)
(* the power limit.  A speed ratio r = (power_limit / p) ** (1 / root) is  *)
(* kept as the quotient power_limit / p under its root, and a derated      *)
(* value r ** exp * of as the ratio, the exponent and the value it scales. *)
(***************************************************************************)
\* the ratio taken the wrong way round, p / power_limit
SpeedRatioInverted(power_limit, p, root) ==
    [ratio |-> IF RSgn(power_limit) = 0 THEN R(2) ELSE RDiv(p, power_limit), root |-> root]

\* (power_limit / p) ** (1.0 / 3.0) with root = 3, (power_limit / p) ** 0.5
\* with root = 2, for p > 0
SpeedRatio(power_limit, p, root) == [ratio |-> RDiv(power_limit, p), root |-> root]

\* r * x with exp = 1 and r * r * x with exp = 2
Scaled(r, exp, x) == [r |-> r, exp |-> exp, of |-> x]

NoRuns == [runs |-> <<>>, seg_flow |-> <<>>, seg_head |-> <<>>,
           label_used |-> FALSE, tail |-> None]

\* the polyline plotted for the segment of acc: it carries the label when
\* no label was used before
Polyline(acc) == [labelled |-> ~acc.label_used, flow |-> acc.seg_flow, head |-> acc.seg_head]

\* lines 716-727 (and 769-781 with root = 2): the loop from the sample i
\* (from 1) on
\* a loop that keeps the first derated point as the tail
RECURSIVE DerateFromFirstTail(_, _, _, _, _, _)
DerateFromFirstTail(ref_data, power_limit, root, n, i, acc) ==
    IF i > n THEN acc
    ELSE CHOOSE derated \in
      { DerateFromFirstTail(ref_data, power_limit, root, n, i + 1, next)
        : next \in
          { IF RLt(power_limit, ref_data.power[i]) /\ RSgn(ref_data.power[i]) > 0
            THEN [runs |-> acc.runs,
                  seg_flow |-> Append(acc.seg_flow, Scaled(r, 1, ref_data.flow[i])),
                  seg_head |-> Append(acc.seg_head, Scaled(r, 2, ref_data.head[i])),
                  label_used |-> acc.label_used,
                  tail |-> IF acc.tail # None THEN acc.tail
                           ELSE <<Scaled(r, 1, ref_data.flow[i]),
                                  Scaled(r, 2, ref_data.head[i]), r>>]
            ELSE IF acc.seg_flow # <<>>
                 THEN [runs |-> Append(acc.runs, Polyline(acc)),
                       seg_flow |-> <<>>,
                       seg_head |-> <<>>,
                       label_used |-> TRUE,
                       tail |-> acc.tail]
                 ELSE acc
            : r \in {IF RSgn(ref_data.power[i]) > 0
                     THEN SpeedRatio(power_limit, ref_data.power[i], root)
                     ELSE None} } }
      : TRUE

RECURSIVE DerateFrom(_, _, _, _, _, _)
DerateFrom(ref_data, power_limit, root, n, i, acc) ==
    IF i > n THEN acc
    ELSE CHOOSE derated \in
      { DerateFrom(ref_data, power_limit, root, n, i + 1, next)
        : next \in
          { IF RLt(power_limit, ref_data.power[i]) /\ RSgn(ref_data.power[i]) > 0
            THEN [runs |-> acc.runs,
                  seg_flow |-> Append(acc.seg_flow, Scaled(r, 1, ref_data.flow[i])),
                  seg_head |-> Append(acc.seg_head, Scaled(r, 2, ref_data.head[i])),
                  label_used |-> acc.label_used,
                  tail |-> <<Scaled(r, 1, ref_data.flow[i]),
                             Scaled(r, 2, ref_data.head[i]), r>>]
            ELSE IF acc.seg_flow # <<>>
                 THEN [runs |-> Append(acc.runs, Polyline(acc)),
                       seg_flow |-> <<>>,
                       seg_head |-> <<>>,
                       label_used |-> TRUE,
                       tail |-> acc.tail]
                 ELSE acc
            : r \in {IF RSgn(ref_data.power[i]) > 0
                     THEN SpeedRatio(power_limit, ref_data.power[i], root)
                     ELSE None} } }
      : TRUE

Min(a, b) == IF a <= b THEN a ELSE b

\* lines 712-730 (and 762-784): the polylines of a reference curve with
\* power readings, and the last derated point
DeratedRuns(ref_data, power_limit, root) ==
    CHOOSE derated \in
      { [runs |-> IF acc.seg_flow # <<>> THEN Append(acc.runs, Polyline(acc)) ELSE acc.runs,
         tail |-> acc.tail]
        : acc \in {DerateFrom(ref_data, power_limit, root,
                              Min(Len(ref_data.flow),
                                  Min(Len(ref_data.head), Len(ref_data.power))),
                              1, NoRuns)} }
      : TRUE

\* smoothed_trim_diameters.index(max(smoothed_trim_diameters)), from 1
IndexOfMax(trims) ==
    CHOOSE i \in 1..Len(trims) :
        /\ \A j \in 1..Len(trims) : trims[j] <= trims[i]
        /\ \A j \in 1..(i - 1) : trims[j] # trims[i]

\* lines 706-731: the polylines "Max Motor Power" of the power-ceiling
\* envelope, derated from the smoothed curve of the largest trim
PowerLimitEnvelope(smoothed_curves_data, smoothed_trim_diameters, limit_data) ==
    IF limit_data = None \/ smoothed_curves_data = <<>> THEN <<>>
    ELSE IF Len(smoothed_curves_data[IndexOfMax(smoothed_trim_diameters)].power) > 0
    THEN DeratedRuns(smoothed_curves_data[IndexOfMax(smoothed_trim_diameters)],
                     limit_data.power_limit, 3).runs
    ELSE <<>>

\* lines 692-694 and 742: the interpolated curve idx (from 1) has a checkbox
\* and the checkbox is not checked
Hidden(checkboxes, idx) == idx <= Len(checkboxes) /\ ~checkboxes[idx][2]

\* lines 690-703: the interpolated curves that are drawn
InterpolatedLines(interps, checkboxes) ==
    LET shown == SelectSeq([idx \in 1..Len(interps) |-> idx] \o <<>>,
                           LAMBDA idx : ~Hidden(checkboxes, idx))
    IN  [k \in 1..Len(shown) |-> interps[shown[k]]] \o <<>>

\* lines 741-746: visible_interps
VisibleInterps(interps, checkboxes) ==
    LET shown == SelectSeq([idx \in 1..Len(interps) |-> idx] \o <<>>,
                           LAMBDA idx : ~Hidden(checkboxes, idx)
                                        /\ ~interps[idx].power_is_none)
    IN  [k \in 1..Len(shown) |-> interps[shown[k]]] \o <<>>

\* reference curves taken from every interpolated curve with a power array,
\* whatever its checkbox
ReducedSpeedRefsUnfiltered(smoothed_curves_data, smoothed_trim_diameters, interps, checkboxes) ==
    LET visible_interps == VisibleInterps(interps, <<>>)
    IN  IF visible_interps # <<>>
        THEN [i \in 1..Len(visible_interps) |->
                 [flow |-> visible_interps[i].flow, head |-> visible_interps[i].head,
                  power |-> visible_interps[i].power,
                  diameter |-> visible_interps[i].target_diameter, interp |-> TRUE]]
        ELSE << [flow |-> smoothed_curves_data[IndexOfMax(smoothed_trim_diameters)].flow,
                 head |-> smoothed_curves_data[IndexOfMax(smoothed_trim_diameters)].head,
                 power |-> smoothed_curves_data[IndexOfMax(smoothed_trim_diameters)].power,
                 diameter |-> smoothed_trim_diameters[IndexOfMax(smoothed_trim_diameters)],
                 interp |-> FALSE] >>

\* lines 748-753: rs_ref_curves, the visible interpolated curves that have a
\* power array, else the smoothed curve of the largest trim; interp tells
\* which of the two a reference curve is
ReducedSpeedRefs(smoothed_curves_data, smoothed_trim_diameters, interps, checkboxes) ==
    LET visible_interps == VisibleInterps(interps, checkboxes)
    IN  IF visible_interps # <<>>
        THEN [i \in 1..Len(visible_interps) |->
                 [flow |-> visible_interps[i].flow, head |-> visible_interps[i].head,
                  power |-> visible_interps[i].power,
                  diameter |-> visible_interps[i].target_diameter, interp |-> TRUE]]
        ELSE << [flow |-> smoothed_curves_data[IndexOfMax(smoothed_trim_diameters)].flow,
                 head |-> smoothed_curves_data[IndexOfMax(smoothed_trim_diameters)].head,
                 power |-> smoothed_curves_data[IndexOfMax(smoothed_trim_diameters)].power,
                 diameter |-> smoothed_trim_diameters[IndexOfMax(smoothed_trim_diameters)],
                 interp |-> FALSE] >>

\* lines 786-790: the annotation of the tail (tail_q, tail_h, tail_r), with
\* std_freq of line 756 for the rpm of the menu; None when tail_r is None
Annotation(tail) ==
    IF tail = None THEN None
    ELSE [xy |-> <<tail[1], tail[2]>>,
          min_freq |-> Scaled(tail[3], 1, R(get_standard_frequency(rpm_menu.value))),
          pct |-> Scaled(tail[3], 1, R(100))]

\* lines 736-790: per reference curve with power readings, the polylines
\* "Reduced Speed Power" and the derated point that is annotated
ReducedSpeedOverlay(smoothed_curves_data, smoothed_trim_diameters, interps, checkboxes, limit_data) ==
    IF limit_data = None \/ smoothed_curves_data = <<>> THEN <<>>
    ELSE CHOOSE lines \in
           { [i \in 1..Len(refs) |->
                CHOOSE line \in
                  { [diameter |-> refs[i].diameter, interp |-> refs[i].interp,
                     runs |-> derated.runs,
                     tail |-> derated.tail,
                     annotation |-> Annotation(derated.tail)]
                    : derated \in {DeratedRuns(rs_ref, limit_data.power_limit, 2)
                                   : rs_ref \in {refs[i]}} }
                  : TRUE]
             : refs \in {SelectSeq(ReducedSpeedRefs(smoothed_curves_data,
                                                    smoothed_trim_diameters, interps,
                                                    checkboxes),
                                   LAMBDA rs_ref : Len(rs_ref.power) > 0)} }
           : TRUE

NoLines == [raw |-> <<>>, interpolated |-> <<>>, envelope |-> <<>>, reduced_speed |-> <<>>]

\* plot_curves with self.interpolated_curves = old_curves,
\* self.interp_checkboxes = checkboxes,
\* self.power_limit_data = limit_data and the head loss head_loss_ft: what it
\* leaves in _last_smoothed_curves, _last_smoothed_trims, interpolated_curves
\* and on ax_power and ax_head.  A call of interpolate_curve that raises ends
\* plot_curves at line 681.
PlotCurves(old_curves, checkboxes, limit_data, head_loss_ft) ==
    \E curves \in {get_curves_for_pump(pump_name_menu, rpm_menu.value)} :
        IF pump_name_menu = "-- No Data --" \/ ~IsFloat(rpm_menu) \/ curves = <<>>
        THEN /\ interpolated_curves' = old_curves
             /\ UNCHANGED <<last_smoothed_curves, last_smoothed_trims, ax_power, ax_head>>
        ELSE \E plots \in {PlotTrims(curves, head_loss_ft, 1, NoPlots)} :
             \E recomputed \in {IF Len(plots.curves) >= 2
                                 THEN Recomputed(old_curves, plots.curves, plots.trims)
                                 ELSE [raised |-> FALSE, new_interp |-> old_curves]} :
                /\ last_smoothed_curves' = plots.curves
                /\ last_smoothed_trims' = plots.trims
                /\ ax_power' = plots.markers
                /\ interpolated_curves' = IF recomputed.raised THEN old_curves
                                          ELSE recomputed.new_interp
                /\ ax_head' =
                     IF recomputed.raised THEN [NoLines EXCEPT !.raw = plots.raw_head]
                     ELSE [raw |-> plots.raw_head,
                           interpolated |-> InterpolatedLines(recomputed.new_interp,
                                                              checkboxes),
                           envelope |-> PowerLimitEnvelope(plots.curves, plots.trims,
                                                           limit_data),
                           reduced_speed |-> ReducedSpeedOverlay(plots.curves, plots.trims,
                                                                 recomputed.new_interp,
                                                                 checkboxes, limit_data)]

plot_curves ==
    /\ PlotCurves(interpolated_curves, interp_checkboxes, power_limit_data, get_pressure_drop_ft)
    /\ UNCHANGED <<freq_vars, scan_vars, table_vars, interp_vars, curve_points, interp_checkboxes,
                   pressure_drop_entry, power_limit_data>>

MaxInterpolated == 1    \* most interpolated curves added

\* add_interpolated_curve with target_diameter_entry in the entry
add_interpolated_curve(target_diameter_entry) ==
    /\ UNCHANGED <<freq_vars, scan_vars, table_vars, interp_vars, curve_points>>
    /\ IF ~IsFloat(target_diameter_entry) \/ Len(last_smoothed_curves) < 2
       THEN UNCHANGED app_vars
       ELSE \E interp_data \in
                {interpolate_curve(last_smoothed_curves, last_smoothed_trims,
                                   target_diameter_entry.value, MaxNumPoints)} :
            IF interp_data = None \/ interp_data = Raised
            THEN UNCHANGED app_vars
            ELSE /\ Len(interpolated_curves) < MaxInterpolated
                 /\ PlotCurves(Append(interpolated_curves,
                                      WithTargetDiameter(interp_data,
                                                         target_diameter_entry.value)),
                               Append(interp_checkboxes,
                                      <<target_diameter_entry.value, TRUE>>),
                               power_limit_data, get_pressure_drop_ft)
                 /\ interp_checkboxes' =
                        Append(interp_checkboxes, <<target_diameter_entry.value, TRUE>>)
                 /\ UNCHANGED <<pressure_drop_entry, power_limit_data>>

\* a clear that leaves the checkboxes in their list
ClearCurvesOnly ==
    /\ PlotCurves(<<>>, interp_checkboxes, power_limit_data, get_pressure_drop_ft)
    /\ UNCHANGED <<freq_vars, scan_vars, table_vars, interp_vars, curve_points, interp_checkboxes,
                   pressure_drop_entry, power_limit_data>>

clear_interpolated ==
    /\ PlotCurves(<<>>, <<>>, power_limit_data, get_pressure_drop_ft)
    /\ interp_checkboxes' = <<>>
    /\ UNCHANGED <<freq_vars, scan_vars, table_vars, interp_vars, curve_points, pressure_drop_entry, power_limit_data>>

\* a click on the checkbox idx (from 1) of the interpolated curves: the
\* checkbox changes its value and calls plot_curves (line 859)
toggle_interp_checkbox(idx) ==
    /\ idx \in 1..Len(interp_checkboxes)
    /\ interp_checkboxes' = [interp_checkboxes EXCEPT ![idx][2] = ~@]
    /\ PlotCurves(interpolated_curves,
                  [interp_checkboxes EXCEPT ![idx][2] = ~@],
                  power_limit_data, get_pressure_drop_ft)
    /\ UNCHANGED <<freq_vars, scan_vars, table_vars, interp_vars, curve_points,
                   pressure_drop_entry, power_limit_data>>

\* apply_power_limit with power_limit_entry in the entry
apply_power_limit(power_limit_entry) ==
    /\ UNCHANGED <<freq_vars, scan_vars, table_vars, interp_vars, curve_points, interp_checkboxes, pressure_drop_entry>>
    /\ IF ~IsFloat(power_limit_entry)
       THEN UNCHANGED <<last_smoothed_curves, last_smoothed_trims, interpolated_curves,
                        ax_power, power_limit_data, ax_head>>
       ELSE /\ power_limit_data' = [power_limit |-> float(power_limit_entry)]
            /\ PlotCurves(interpolated_curves, interp_checkboxes, [power_limit |-> float(power_limit_entry)],
                          get_pressure_drop_ft)

clear_power_limit ==
    /\ power_limit_data' = None
    /\ PlotCurves(interpolated_curves, interp_checkboxes, None, get_pressure_drop_ft)
    /\ UNCHANGED <<freq_vars, scan_vars, table_vars, interp_vars, curve_points, interp_checkboxes, pressure_drop_entry>>

\* _apply_pressure_drop after text was put in the pressure drop entry
apply_pressure_drop(text) ==
    /\ pressure_drop_entry' = text
    /\ UNCHANGED <<freq_vars, scan_vars, table_vars, interp_vars, curve_points, interp_checkboxes, power_limit_data>>
    /\ IF pump_name_menu = "-- No Data --" \/ ~IsFloat(rpm_menu)
          \/ (text.text # "" /\ ~IsFloat(text))
       THEN UNCHANGED <<last_smoothed_curves, last_smoothed_trims, interpolated_curves,
                        ax_power, ax_head>>
       ELSE PlotCurves(interpolated_curves, interp_checkboxes, power_limit_data, get_pressure_drop_ft')

(***************************************************************************)
(* The calls of interpolate_curve that are explored.  Flows are in units   *)
(* of 20 GPM and heads in units of 5 ft, so that the first two curves are  *)
(* the trims of 10 and 8 inches with flows 0, 100, 200 and 0, 80, 160.     *)
(***************************************************************************)
Curve(f, h, p) ==
    [flow |-> RSeq(f), head |-> RSeq(h), power |-> RSeq(p),
     rpm |-> [i \in 1..Len(f) |-> R(1760)]]

CurveA == Curve(<<0, 5, 10>>, <<12, 11, 8>>, <<2, 4, 6>>)
CurveB == Curve(<<0, 4, 8>>, <<10, 9, 6>>, <<1, 3, 5>>)
CurveOnePoint == Curve(<<4>>, <<9>>, <<3>>)
CurveNoPower == Curve(<<2, 6>>, <<11, 7>>, <<>>)
CurveParabola == Curve(<<2, 4, 6>>, <<1, 4, 9>>, <<1, 2>>)
CurveDropped == Curve(<<0, 4, 8>>, <<-2, 2, -6>>, <<3>>)
CurveFromOrigin == Curve(<<0, 6>>, <<0, 3>>, <<1, 2>>)

CurveLibrary == {CurveA, CurveB, CurveOnePoint, CurveNoPower, CurveParabola,
                 CurveDropped, CurveFromOrigin}

\* the curves of the lists of three and more curves
LongListCurves == <<CurveA, CurveB, CurveNoPower, CurveParabola>>

\* trims of 8, 10 and 12 inches, and targets below, at, between and above them
Diameters(n) == IF n <= 2 THEN {8, 10} ELSE {8, 10, 12}

Targets(n) == IF n <= 2 THEN 7..11 ELSE 7..13

CurveLists(n) ==
    IF n <= 2 THEN [1..n -> CurveLibrary]
    ELSE {[i \in 1..n |-> LongListCurves[((i - 1) % Len(LongListCurves)) + 1]]}

InitInterp ==
    /\ \E n \in 0..MaxCurves :
          /\ curves_data \in CurveLists(n)
          /\ trim_diameters \in [1..n -> Diameters(n)]
          /\ target_diameter \in Targets(n)
    /\ num_points \in MinBlended..MaxNumPoints
    /\ pc = "call"
    /\ locals_unset
    /\ stored_tables
    /\ no_scan
    /\ no_freq
    /\ curve_points = [id \in CurveIds |-> <<>>]
    /\ last_smoothed_curves = <<>>
    /\ last_smoothed_trims = <<>>
    /\ interpolated_curves = <<>>
    /\ interp_checkboxes = <<>>
    /\ ax_power = <<>>
    /\ pressure_drop_entry = Blank
    /\ power_limit_data = None
    /\ ax_head = NoLines

NextInterp ==
    \/ SelectBracket
    \/ PrepareSamples
    \/ SampleStep
    \/ EndOfSamples
    \/ Finish

SpecInterp == InitInterp /\ [][NextInterp]_vars

(***************************************************************************)
(* The program: data entry and plotting over an empty table of points.     *)
(***************************************************************************)
Line(flow, head, power, rpm) == <<Num(flow), Num(head), Blank, power, Num(rpm)>>

TextA == <<Line(0, 13, Num(2), 1760), Line(5, 11, Num(4), 1760), Line(10, 6, Num(6), 1760)>>

TextB == <<Line(0, 10, Num(1), 1760), Line(4, 9, Num(3), 1760), Line(8, 5, Num(5), 1760)>>

\* the second line has no power reading
TextGap == <<Line(8, 5, Num(5), 1760), Line(0, 10, Blank, 1760), Line(4, 9, Num(3), 1760)>>

\* no line is a data point
TextJunk == <<<<Junk, Num(1), Blank, Num(1), Num(1760)>>, <<Num(1), Num(2)>>,
              <<Num(1), Num(2), Blank, Junk, Num(1760)>>>>

Texts == {TextA, TextB, TextGap, TextJunk}

TargetEntries == {Num(9), Num(10), Junk}

no_call ==
    /\ curves_data = <<>> /\ trim_diameters = <<>> /\ target_diameter = 0
    /\ num_points = MaxNumPoints /\ pc = "idle" /\ locals_unset

Init ==
    /\ no_call
    /\ stored_tables
    /\ no_scan
    /\ no_freq
    /\ curve_points = [id \in CurveIds |-> <<>>]
    /\ last_smoothed_curves = <<>>
    /\ last_smoothed_trims = <<>>
    /\ interpolated_curves = <<>>
    /\ interp_checkboxes = <<>>
    /\ ax_power = <<>>
    /\ pressure_drop_entry = Blank
    /\ power_limit_data = None
    /\ ax_head = NoLines

Next ==
    \/ \E id \in CurveIds \cup {NoIdx}, text \in Texts : save_data(id, text)
    \/ plot_curves
    \/ \E entry \in TargetEntries : add_interpolated_curve(entry)
    \/ clear_interpolated

Spec == Init /\ [][Next]_vars

(***************************************************************************)
(* The plotting frame over a database that holds the points of both        *)
(* curves, entered in an earlier run: pressure drop, power limit and       *)
(* interpolated curves.                                                    *)
(***************************************************************************)
\* the trim of 10: heads of 60, 55 and 40 ft in units of 5 ft, no power at
\* shut-off
TextE == <<Line(0, 12, Num(0), 1760), Line(5, 11, Num(2), 1760), Line(10, 8, Num(4), 1760)>>

StoredPoints == [id \in CurveIds |-> IF id = 2 THEN parse_data(TextE) ELSE parse_data(TextB)]

\* the trim of 8 entered without a power reading
TextNoPower == <<Line(0, 10, Blank, 1760), Line(4, 9, Blank, 1760), Line(8, 5, Blank, 1760)>>

StoredPointsNoPower ==
    [id \in CurveIds |-> IF id = 2 THEN parse_data(TextE) ELSE parse_data(TextNoPower)]

\* no pressure drop, one of 10 ft, one above every head, and no number
PressureDropTexts == {Blank, Num(2), Num(12), Junk}

\* limits between the powers of the curve, zero, a negative one, and no number
PowerLimitEntries == {Num(1), Num(3), Num(0), Num(-1), Junk}

DerateTargets == {Num(9), Num(10), Junk}

InitDerate ==
    /\ no_call
    /\ stored_tables
    /\ no_scan
    /\ no_freq
    /\ curve_points = StoredPoints
    /\ last_smoothed_curves = <<>>
    /\ last_smoothed_trims = <<>>
    /\ interpolated_curves = <<>>
    /\ interp_checkboxes = <<>>
    /\ ax_power = <<>>
    /\ pressure_drop_entry = Blank
    /\ power_limit_data = None
    /\ ax_head = NoLines

NextDerate ==
    \/ \E text \in PressureDropTexts : apply_pressure_drop(text)
    \/ \E entry \in PowerLimitEntries : apply_power_limit(entry)
    \/ clear_power_limit
    \/ plot_curves
    \/ \E entry \in DerateTargets : add_interpolated_curve(entry)
    \/ clear_interpolated

SpecDerate == InitDerate /\ [][NextDerate]_vars

(***************************************************************************)
(* The plotting frame with the checkboxes of the interpolated curves, over *)
(* a database in which the trim of 8 has power readings or has none.       *)
(***************************************************************************)
OverlayPressureDrops == {Blank, Num(2), Num(12)}

OverlayLimits == {Num(1), Num(3)}

OverlayTargets == {Num(9), Num(10)}

InitOverlay ==
    /\ no_call
    /\ stored_tables
    /\ no_scan
    /\ no_freq
    /\ \E points \in {StoredPoints, StoredPointsNoPower} : curve_points = points
    /\ last_smoothed_curves = <<>>
    /\ last_smoothed_trims = <<>>
    /\ interpolated_curves = <<>>
    /\ interp_checkboxes = <<>>
    /\ ax_power = <<>>
    /\ pressure_drop_entry = Blank
    /\ power_limit_data = None
    /\ ax_head = NoLines

NextOverlay ==
    \/ \E text \in OverlayPressureDrops : apply_pressure_drop(text)
    \/ \E entry \in OverlayLimits : apply_power_limit(entry)
    \/ clear_power_limit
    \/ \E entry \in OverlayTargets : add_interpolated_curve(entry)
    \/ \E idx \in 1..MaxInterpolated : toggle_interp_checkbox(idx)
    \/ clear_interpolated

SpecOverlay == InitOverlay /\ [][NextOverlay]_vars

(***************************************************************************)
(* The database from its creation by init_db: curves are added and         *)
(* deleted and points are saved.                                           *)
(***************************************************************************)
PumpNames == {"P1", "P2"}

\* a power that is nan, and a flow that is nan in the second line
TextNanPower == <<Line(0, 10, NanText, 1760), Line(4, 9, Num(3), 1760)>>

TextNanFlow == <<Line(4, 9, Num(3), 1760), <<NanText, Num(9), Blank, Num(3), Num(1760)>>>>

DbTexts == {TextB, TextJunk, TextNanPower, TextNanFlow}

TrimEntries == {8, 10}

\* two valid speeds and one that is not
RpmChoices == {1760, 3500, 1750}

InitDb ==
    /\ no_call
    /\ no_scan
    /\ no_freq
    /\ pump_curves = <<>>
    /\ sqlite_sequence = 0
    /\ db_error = ""
    /\ curve_points = [id \in CurveIds |-> <<>>]
    /\ last_smoothed_curves = <<>>
    /\ last_smoothed_trims = <<>>
    /\ interpolated_curves = <<>>
    /\ interp_checkboxes = <<>>
    /\ ax_power = <<>>
    /\ pressure_drop_entry = Blank
    /\ power_limit_data = None
    /\ ax_head = NoLines

NextDb ==
    \/ \E name \in PumpNames, trim_diameter \in TrimEntries, rpm \in RpmChoices :
          add_pump_curve(name, trim_diameter, rpm)
    \/ \E curve_id \in 1..MaxCurveId : delete_pump_curve(curve_id)
    \/ \E id \in CurveIds \cup {NoIdx}, text \in DbTexts : save_data(id, text)

SpecDb == InitDb /\ [][NextDb]_vars

(***************************************************************************)
(* Calls of find_parabola_intersection: the curve of a trim and the k of   *)
(* a sample of the smaller trim.                                           *)
(***************************************************************************)
\* a steep curve that starts above the flow 0
CurveSteep == Curve(<<2, 6>>, <<40, 1>>, <<>>)

ScanCurves == {CurveA, CurveParabola, CurveDropped, CurveSteep}

\* k of samples with flows above 0 and with the flow 0
ScanKs ==
    {ParabolaK(R(1), R(2)), ParabolaK(R(1), R(4)), ParabolaK(R(12), R(0)),
     ParabolaK(R(0 - 2), R(0)), ParabolaK(R(0), R(0))}

Scales == {"1", "2^-600"}

InitScan ==
    /\ no_call
    /\ stored_tables
    /\ curve_points = [id \in CurveIds |-> <<>>]
    /\ last_smoothed_curves = <<>>
    /\ last_smoothed_trims = <<>>
    /\ interpolated_curves = <<>>
    /\ interp_checkboxes = <<>>
    /\ ax_power = <<>>
    /\ pressure_drop_entry = Blank
    /\ power_limit_data = None
    /\ ax_head = NoLines
    /\ \E curve \in ScanCurves, k \in ScanKs, scale \in Scales :
          fpi_args = [flow_arr |-> curve.flow, head_arr |-> curve.head,
                      k |-> k, scale |-> scale]
    /\ fpi_i = 0
    /\ fpi_pc = "loop"
    /\ fpi_found = None
    /\ fpi_skipped = {}
    /\ no_freq

NextScan ==
    \/ ScanPair
    \/ ScanEnd

SpecScan == InitScan /\ [][NextScan]_vars

(***************************************************************************)
(* Calls of _get_standard_frequency with the speeds up to MaxRpm and their *)
(* negatives.                                                              *)
(***************************************************************************)
MaxRpm == 4500          \* largest rpm handed to _get_standard_frequency

InitFreq ==
    /\ no_call
    /\ stored_tables
    /\ no_scan
    /\ curve_points = [id \in CurveIds |-> <<>>]
    /\ last_smoothed_curves = <<>>
    /\ last_smoothed_trims = <<>>
    /\ interpolated_curves = <<>>
    /\ interp_checkboxes = <<>>
    /\ ax_power = <<>>
    /\ pressure_drop_entry = Blank
    /\ power_limit_data = None
    /\ ax_head = NoLines
    /\ rpm_arg \in (0 - MaxRpm)..MaxRpm
    /\ closest = None

NextFreq == StandardFrequency

SpecFreq == InitFreq /\ [][NextFreq]_vars


(***************************************************************************)
(* Properties of interpolate_curve, checked under SpecInterp.              *)
(***************************************************************************)
TrimSet == {trim_diameters[i] : i \in 1..Len(trim_diameters)}

DistinctTrims == Cardinality(TrimSet) = Len(trim_diameters)

SetMax(S) == CHOOSE m \in S : \A x \in S : x <= m

SetMin(S) == CHOOSE m \in S : \A x \in S : m <= x

\* lines 93-136 have run
bracketed == pc # "call" /\ Len(curves_data) >= 2

\* the call raised ValueError
raised == outcome = "ValueError"

\* C1: for >= 2 curves of distinct trims, a target strictly between two
\* trims is bracketed, lower_diameter <= target <= upper_diameter; a target
\* above all trims gets the two largest trims and a target below all trims
\* the two smallest
C1_BracketBounds ==
    (bracketed /\ DistinctTrims) =>
        /\ (\E a, b \in TrimSet : a < target_diameter /\ target_diameter < b)
               => lower_diameter <= target_diameter /\ target_diameter <= upper_diameter
        /\ target_diameter > SetMax(TrimSet)
               => /\ upper_diameter = SetMax(TrimSet)
                  /\ lower_diameter = SetMax(TrimSet \ {upper_diameter})
        /\ target_diameter < SetMin(TrimSet)
               => /\ lower_diameter = SetMin(TrimSet)
                  /\ upper_diameter = SetMin(TrimSet \ {lower_diameter})

C1_Witness ==
    /\ bracketed /\ DistinctTrims /\ Len(trim_diameters) = 3
    /\ target_diameter \notin TrimSet
    /\ \E a, b \in TrimSet : a < target_diameter /\ target_diameter < b
    /\ lower_diameter < target_diameter /\ target_diameter < upper_diameter

\* C2: a target equal to the diameter of one of the >= 2 curves gets two
\* distinct curves, upper_idx # lower_idx, and a factor that no division by
\* zero produced
C2_ExactMatchDistinct ==
    (bracketed /\ target_diameter \in TrimSet) =>
        /\ upper_idx # lower_idx
        /\ upper_idx \in 0..(Len(curves_data) - 1)
        /\ lower_idx \in 0..(Len(curves_data) - 1)
        /\ factor[2] > 0

C2_Witness ==
    /\ bracketed /\ DistinctTrims /\ Len(trim_diameters) = 3
    /\ target_diameter = sorted_trims[2]
    /\ upper_idx # lower_idx

\* C3 as stated: the factor is 0 when the bracket diameters are equal, else
\* (target - lower_diameter) / (upper_diameter - lower_diameter)
C3_FactorZeroWhenDegenerate ==
    bracketed =>
        factor = IF upper_diameter = lower_diameter THEN R(0)
                 ELSE Norm(target_diameter - lower_diameter,
                           upper_diameter - lower_diameter)

\* C3 amended: the factor is 1/2 when the bracket diameters are equal, else
\* (target - lower_diameter) / (upper_diameter - lower_diameter); it is the
\* factor of the returned curve; the diameters 10 and 8 with target 9 give
\* the bracket (8, 10) and the factor 1/2
C3_FactorHalfWhenDegenerate ==
    /\ bracketed =>
           factor = IF upper_diameter = lower_diameter THEN Norm(1, 2)
                    ELSE Norm(target_diameter - lower_diameter,
                              upper_diameter - lower_diameter)
    /\ outcome = "curve" =>
           /\ result.factor = factor
           /\ result.interpolated_from = <<lower_diameter, upper_diameter>>
    /\ (bracketed /\ TrimSet = {8, 10} /\ DistinctTrims /\ target_diameter = 9) =>
           /\ <<lower_diameter, upper_diameter>> = <<8, 10>>
           /\ factor = Norm(1, 2)

C3_Witness ==
    /\ outcome = "curve"
    /\ upper_diameter = lower_diameter
    /\ result.factor = Norm(1, 2)

\* C4 as stated: the flow array of a returned curve is strictly ascending
C4_FlowStrictlyAscending ==
    outcome = "curve" =>
        \A i \in 1..(Len(result.flow) - 1) : RLt(result.flow[i], result.flow[i + 1])

\* C4 amended: the flow array of a returned curve is ascending,
\* flow[i] <= flow[i+1]; blended points may share a flow value
C4_FlowAscending ==
    outcome = "curve" =>
        \A i \in 1..(Len(result.flow) - 1) : RLe(result.flow[i], result.flow[i + 1])

C4_Witness ==
    /\ outcome = "curve"
    /\ \E i \in 1..(Len(result.flow) - 1) : result.flow[i] = result.flow[i + 1]

\* C5: the call returns None, without raising, whenever fewer than 2 curves
\* are supplied or fewer than 3 samples were blended; a returned curve has at
\* least 3 and at most num_points points
C5_NoneWithoutRaising ==
    /\ (pc = "done" /\ (Len(curves_data) < 2 \/ Len(interpolated_flow) < MinBlended))
           => outcome = "None"
    /\ outcome = "curve" =>
           Len(result.flow) >= MinBlended /\ Len(result.flow) <= num_points

\* C6: a bracket with a curve of a single point, lower or upper, makes the
\* call return None; it does not raise
C6_SinglePointReturnsNone ==
    (pc = "done" /\ bracketed
       /\ (Len(lower_curve.flow) = 1 \/ Len(upper_curve.flow) = 1))
        => outcome = "None"

\* the visited samples (from 1) with q_lower = 0
ZeroSamples ==
    {i \in 1..Len(intersections) :
        LowerFlowSample(lower_curve, num_points, i - 1) = R(0)}

\* h_lower of the visited sample i (from 1)
LowerHead(i) ==
    interp1d(lower_curve.flow, lower_curve.head,
             LowerFlowSample(lower_curve, num_points, i - 1))

Succeeded == {i \in 1..Len(intersections) : intersections[i] # NoIntersection}

\* C8: a failed intersection only drops its sample: the loop visits all
\* num_points samples, there is one blended point per sample whose
\* intersection succeeded, and the call returns None only if fewer than 3
\* samples succeeded
C8_FailedSampleOnlyDropped ==
    /\ Len(interpolated_flow) = Cardinality(Succeeded)
    /\ Len(interpolated_head) = Cardinality(Succeeded)
    /\ (pc = "finish" \/ (pc = "done" /\ bracketed /\ ~raised))
           => Len(intersections) = num_points
    /\ outcome = "curve" => Len(result.flow) = Cardinality(Succeeded)
    /\ (pc = "done" /\ bracketed /\ ~raised)
           => (outcome = "None" <=> Cardinality(Succeeded) < MinBlended)

C8_Witness ==
    /\ outcome = "curve"
    /\ \E i \in 1..Len(intersections) :
          /\ intersections[i] = NoIntersection
          /\ \E j \in (i + 1)..Len(intersections) : intersections[j] # NoIntersection
    /\ Len(result.flow) = num_points - 1

(***************************************************************************)
(* Properties of get_curve_data and plot_curves, checked under Spec.       *)
(***************************************************************************)
\* the curves of the selected pump in the order of the loop of plot_curves
SelectedCurves == get_curves_for_pump(pump_name_menu, rpm_menu.value)

\* the trims of the selected curves that have points, in that order
NonEmptyTrims ==
    LET with_points == SelectSeq(SelectedCurves, LAMBDA row : curve_points[row.id] # <<>>)
    IN  [i \in 1..Len(with_points) |-> with_points[i].trim_diameter]

\* a step of save_data
SaveStep == \E id \in CurveIds \cup {NoIdx}, text \in Texts : save_data(id, text)

\* a step that runs plot_curves: plot_curves itself, clear_interpolated or
\* an add_interpolated_curve that adds a curve, the steps of no save_data
PlotStep == ~SaveStep

\* C9: get_curve_data returns None for a curve id without points, and
\* plot_curves skips such a curve and goes on with the curves after it: the
\* smoothed lists it leaves hold the curves that have points, one entry each
C9_EmptyCurveSkipped ==
    [][ /\ \A id \in CurveIds : curve_points[id] = <<>> => get_curve_data(id) = None
        /\ PlotStep => /\ last_smoothed_trims' = NonEmptyTrims
                       /\ Len(last_smoothed_curves') = Len(NonEmptyTrims) ]_vars

C9_Witness ==
    \E i, j \in 1..Len(SelectedCurves) :
        /\ i < j
        /\ curve_points[SelectedCurves[i].id] = <<>>
        /\ get_curve_data(SelectedCurves[i].id) = None
        /\ curve_points[SelectedCurves[j].id] # <<>>
        /\ last_smoothed_trims = <<SelectedCurves[j].trim_diameter>>
        /\ Len(last_smoothed_curves) = 1

\* C10: in the dict of get_curve_data, power[i] is the reading of the stored
\* point whose flow is flow[i], for every i < len(power)
C10_PowerAlignedToFlowPrefix ==
    \A id \in CurveIds :
        get_curve_data(id) # None =>
            \A i \in 1..Len(get_curve_data(id).power) :
                \E p \in 1..Len(curve_points[id]) :
                    /\ curve_points[id][p].flow_gpm = get_curve_data(id).flow[i]
                    /\ curve_points[id][p].power_hp = get_curve_data(id).power[i]

\* C11: in every dict that get_curve_data returns, power is no longer than
\* flow, and head, flow and rpm have the same length
C11_ArrayLengths ==
    \A id \in CurveIds :
        get_curve_data(id) # None =>
            /\ Len(get_curve_data(id).power) <= Len(get_curve_data(id).flow)
            /\ Len(get_curve_data(id).head) = Len(get_curve_data(id).flow)
            /\ Len(get_curve_data(id).flow) = Len(get_curve_data(id).rpm)

C11_Witness ==
    \E id \in CurveIds :
        /\ get_curve_data(id) # None
        /\ Len(get_curve_data(id).power) > 0
        /\ Len(get_curve_data(id).power) < Len(get_curve_data(id).flow)
        /\ Len(get_curve_data(id).rpm) = Len(curve_points[id])

(***************************************************************************)
(* Properties of the pressure drop and the power limit, checked under      *)
(* SpecDerate.                                                             *)
(***************************************************************************)
\* a speed ratio that is no real number: ** gives a complex number for a
\* negative base
IsComplex(r) == RSgn(r.ratio) < 0

\* the sign of v - v.of for a derated value v = r ** exp * of with a real
\* r: r ** exp is below 1 exactly if the ratio under the root is
ScaledCmp(v) == RSgn(v.of) * RCmp(v.r.ratio, R(1))

\* the derated values of the polylines of the envelope: flows and heads
EnvelopeFlows ==
    UNION {{ax_head.envelope[k].flow[j] : j \in 1..Len(ax_head.envelope[k].flow)}
           : k \in 1..Len(ax_head.envelope)}

EnvelopeHeads ==
    UNION {{ax_head.envelope[k].head[j] : j \in 1..Len(ax_head.envelope[k].head)}
           : k \in 1..Len(ax_head.envelope)}

PositiveLimit == power_limit_data # None /\ RSgn(power_limit_data.power_limit) > 0

\* C12 as stated: every point (q', h') of the envelope, derated from a
\* sample (q, h, p) with p > limit > 0, has q' <= q and h' <= h
C12_EnvelopeBelowSource ==
    PositiveLimit =>
        /\ \A v \in EnvelopeFlows : ScaledCmp(v) <= 0
        /\ \A v \in EnvelopeHeads : ScaledCmp(v) <= 0

\* C12 amended: for a limit >= 0, q' <= q for a flow q >= 0, h' <= h for a
\* head h >= 0, and h' > h for a head h < 0, which a pressure drop above the
\* head produces
C12_EnvelopeTowardsOrigin ==
    (power_limit_data # None /\ RSgn(power_limit_data.power_limit) >= 0) =>
        /\ \A v \in EnvelopeFlows : ~IsComplex(v.r) /\ (RSgn(v.of) >= 0 => ScaledCmp(v) <= 0)
        /\ \A v \in EnvelopeHeads :
              /\ ~IsComplex(v.r)
              /\ RSgn(v.of) >= 0 => ScaledCmp(v) <= 0
              /\ RSgn(v.of) < 0 => ScaledCmp(v) > 0

C12_Witness ==
    /\ PositiveLimit
    /\ get_pressure_drop_ft = R(12)
    /\ \E v \in EnvelopeHeads : RSgn(v.of) < 0 /\ ScaledCmp(v) > 0
    /\ \E v \in EnvelopeFlows : RSgn(v.of) > 0 /\ ScaledCmp(v) < 0

\* C13: a power limit <= 0 is rejected: it is not stored in
\* power_limit_data, and no envelope and no overlay is derated from it
C13_NonPositiveLimitRejected ==
    power_limit_data # None =>
        \/ RSgn(power_limit_data.power_limit) > 0
        \/ (ax_head.envelope = <<>> /\ ax_head.reduced_speed = <<>>)

\* the dict of the points stored for the curve i of the selection
StoredData(i) == get_curve_data(SelectedCurves[i].id)

\* the flows and heads that a list of polylines was derated from
SourcePoints(runs) ==
    UNION {{<<runs[k].flow[j].of, runs[k].head[j].of>> : j \in 1..Len(runs[k].flow)}
           : k \in 1..Len(runs)}

CurvePoints(data) == {<<data.flow[j], data.head[j]>> : j \in 1..Len(data.flow)}

\* a step in which plot_curves ran to its end
Replotted ==
    \/ /\ pressure_drop_entry' # pressure_drop_entry
       /\ (pressure_drop_entry'.text = "" \/ IsFloat(pressure_drop_entry'))
    \/ last_smoothed_curves' # last_smoothed_curves
    \/ interpolated_curves' # interpolated_curves
    \/ ax_head' # ax_head

\* C14: plot_curves takes the head loss of the pressure drop entry off every
\* head value of every curve, raw and smoothed, and leaves the flows and the
\* powers as they are; the interpolated curves, the envelope and the overlay
\* are computed from the smoothed curves with the lowered heads
C14_PressureDropOffset ==
    [][ Replotted =>
          /\ Len(last_smoothed_curves') = Len(SelectedCurves)
          /\ \A i \in 1..Len(SelectedCurves) :
                /\ last_smoothed_curves'[i].flow = Smoothed(StoredData(i)).flow
                /\ last_smoothed_curves'[i].power = Smoothed(StoredData(i)).power
                /\ \A j \in 1..Len(last_smoothed_curves'[i].head) :
                      RAdd(last_smoothed_curves'[i].head[j], get_pressure_drop_ft')
                          = Smoothed(StoredData(i)).head[j]
                /\ ax_head'.raw[i].flow = StoredData(i).flow
                /\ Len(ax_head'.raw[i].head) = Len(StoredData(i).head)
                /\ \A j \in 1..Len(StoredData(i).head) :
                      RAdd(ax_head'.raw[i].head[j], get_pressure_drop_ft')
                          = StoredData(i).head[j]
          /\ \A idx \in 1..Len(interpolated_curves') :
                \E interp_data \in
                    {interpolate_curve(last_smoothed_curves', last_smoothed_trims',
                                       interpolated_curves'[idx].target_diameter,
                                       MaxNumPoints)} :
                    interp_data # None =>
                        interpolated_curves'[idx] =
                            WithTargetDiameter(interp_data,
                                               interpolated_curves'[idx].target_diameter)
          /\ SourcePoints(ax_head'.envelope)
                \subseteq CurvePoints(last_smoothed_curves'[IndexOfMax(last_smoothed_trims')])
          /\ \A k \in 1..Len(ax_head'.reduced_speed) :
                SourcePoints(ax_head'.reduced_speed[k].runs)
                    \subseteq (CurvePoints(last_smoothed_curves'[IndexOfMax(last_smoothed_trims')])
                               \cup UNION {CurvePoints(interpolated_curves'[idx])
                                           : idx \in 1..Len(interpolated_curves')}) ]_vars

\* Scenario E: a pressure drop of 10 ft on the heads 60, 55 and 40 ft
C14_Witness ==
    /\ pressure_drop_entry = Num(2)
    /\ StoredData(1).head = RSeq(<<12, 11, 8>>)
    /\ ax_head.raw # <<>>
    /\ ax_head.raw[1].head = RSeq(<<10, 9, 6>>)
    /\ ax_head.raw[1].flow = StoredData(1).flow
    /\ interpolated_curves # <<>>
    /\ ax_head.envelope # <<>>
    /\ ax_head.reduced_speed # <<>>

\* the reference curve of the envelope and its samples above the limit
EnvelopeRef == last_smoothed_curves[IndexOfMax(last_smoothed_trims)]

OverLimit ==
    {i \in 1..Len(EnvelopeRef.power) :
        RLt(power_limit_data.power_limit, EnvelopeRef.power[i])}

\* the first samples of the maximal blocks of samples above the limit
BlockStarts == {i \in OverLimit : (i - 1) \notin OverLimit}

\* the block (from 1) of the sample i above the limit
BlockOf(i) == Cardinality({b \in BlockStarts : b <= i})

\* the samples above the limit in ascending order
RECURSIVE Ascending(_)
Ascending(S) ==
    IF S = {} THEN <<>>
    ELSE <<SetMin(S)>> \o Ascending(S \ {SetMin(S)})

\* C20: the envelope is one polyline per maximal block of adjacent samples
\* with p > limit, the polylines and their points in the order of the
\* samples, so that a limit below every power gives one polyline of all
\* samples; the first polyline carries the label and no other
C20_OneRunPerBlock ==
    (power_limit_data # None /\ last_smoothed_curves # <<>>) =>
        /\ Len(ax_head.envelope) = Cardinality(BlockStarts)
        /\ \A k \in 1..Len(ax_head.envelope) :
              /\ ax_head.envelope[k].labelled = (k = 1)
              /\ Len(ax_head.envelope[k].head) = Len(ax_head.envelope[k].flow)
              /\ LET block == Ascending({i \in OverLimit : BlockOf(i) = k})
                 IN  /\ Len(ax_head.envelope[k].flow) = Len(block)
                     /\ \A j \in 1..Len(block) :
                           /\ ax_head.envelope[k].flow[j].of = EnvelopeRef.flow[block[j]]
                           /\ ax_head.envelope[k].head[j].of = EnvelopeRef.head[block[j]]

(***************************************************************************)
(* Further properties of interpolate_curve, checked under SpecInterp.      *)
(***************************************************************************)
\* C15: no step of a call changes the caller's curves_data list, in its
\* order or in an array of a curve, or the caller's trim_diameters list
C15_InputsNotMutated ==
    [][curves_data' = curves_data /\ trim_diameters' = trim_diameters]_vars

\* a call that sorted its lists into another order and returned a curve
C15_Witness ==
    /\ pc = "done" /\ outcome = "curve"
    /\ sorted_trims # trim_diameters
    /\ sorted_curves # curves_data
    /\ Len(trim_diameters) = 3 /\ trim_diameters[1] < trim_diameters[3]

(***************************************************************************)
(* Properties of the table pump_curves, checked under SpecDb.              *)
(***************************************************************************)
Key(row) == <<row.name, row.trim_diameter, row.rpm>>

Keys(table) == {Key(table[i]) : i \in 1..Len(table)}

\* C16: after every add_pump_curve and delete_pump_curve no two rows of
\* pump_curves have the same (name, trim_diameter, rpm), so that the trims
\* of one name and rpm differ; a call that raises inserts no row, and a row
\* is inserted only with a key that no row had
C16_UniqueCurves ==
    [][ /\ Cardinality(Keys(pump_curves')) = Len(pump_curves')
        /\ \A i, j \in 1..Len(pump_curves') :
              (/\ i # j
               /\ pump_curves'[i].name = pump_curves'[j].name
               /\ pump_curves'[i].rpm = pump_curves'[j].rpm)
                  => pump_curves'[i].trim_diameter # pump_curves'[j].trim_diameter
        /\ db_error' = "IntegrityError" => pump_curves' = pump_curves
        /\ Len(pump_curves') > Len(pump_curves) =>
              /\ Len(pump_curves') = Len(pump_curves) + 1
              /\ Key(pump_curves'[Len(pump_curves')]) \notin Keys(pump_curves) ]_vars

\* a duplicate was refused while the same pump and speed had two trims, after
\* a row was deleted
C16_Witness ==
    /\ db_error = "IntegrityError"
    /\ Len(pump_curves) = 2
    /\ sqlite_sequence = 3
    /\ pump_curves[1].name = pump_curves[2].name
    /\ pump_curves[1].rpm = pump_curves[2].rpm
    /\ pump_curves[1].trim_diameter # pump_curves[2].trim_diameter

(***************************************************************************)
(* Properties of find_parabola_intersection, checked under SpecScan.       *)
(***************************************************************************)
Pairs == 0..(TestPoints - 2)

\* the call returned a point
Found == fpi_pc = "returned" /\ fpi_found # NoIntersection

\* r1 * r2 <= 0 holds of the pair p of the call
NotPositiveAt(p) ==
    \E pair \in {PairOf(fpi_args, p)} : ProductNotPositive(fpi_args, pair[3], pair[4])

\* r1 * r2 <= 0 holds of the pair p and brentq raises no error for it
RefinedAt(p) ==
    \E pair \in {PairOf(fpi_args, p)} :
        /\ ProductNotPositive(fpi_args, pair[3], pair[4])
        /\ ~BrentqRaises(pair[3], pair[4])

\* Q* lies between the test points of the pair p
RootInPair(p) ==
    \E pair \in {PairOf(fpi_args, p)} :
        /\ RLe(pair[1], fpi_found[1])
        /\ RLe(fpi_found[1], pair[2])

\* Q* lies in [min(flow), 1.05 * max(flow)]
RootInDomain ==
    /\ RLe(SeqMin(fpi_args.flow_arr), fpi_found[1])
    /\ RLe(fpi_found[1], RMul(Norm(105, 100), SeqMax(fpi_args.flow_arr)))

C18_OnlyRootZero ==
    (Found /\ fpi_args.k.kind = "inf") => RSgn(fpi_found[1]) = 0

\* C19: the call returns None when no pair of test points has
\* residual(q_i) * residual(q_{i+1}) <= 0, and it returns None only after
\* every pair with such a product raised; a pass of the loop that raises
\* returns nothing and the loop goes on with the next pair
C19_NoneWithoutSignChange ==
    [][ /\ (fpi_pc' = "returned" /\ \A p \in Pairs : ~NotPositiveAt(p))
              => fpi_found' = NoIntersection
        /\ (fpi_pc' = "returned" /\ fpi_found' = NoIntersection)
              => \A p \in Pairs : NotPositiveAt(p) => p \in fpi_skipped'
        /\ fpi_skipped' # fpi_skipped
              => /\ fpi_pc' = "loop"
                 /\ fpi_i' = fpi_i + 1
                 /\ fpi_found' = fpi_found
                 /\ fpi_skipped' = fpi_skipped \cup {fpi_i} ]_vars

\* passes of the loop raised and a later pair gave the root
C19_Witness ==
    /\ Found
    /\ fpi_skipped # {}
    /\ \A j \in fpi_skipped : j < fpi_i
    /\ RootInPair(fpi_i)


(***************************************************************************)
(* Properties of _get_standard_frequency, checked under SpecFreq.          *)
(***************************************************************************)
StandardSpeeds == {rpm_to_freq[i][1] : i \in 1..Len(rpm_to_freq)}

\* the standard speeds at the least distance from rpm
Nearest(rpm) ==
    {v \in StandardSpeeds : \A w \in StandardSpeeds : Abs(v - rpm) <= Abs(w - rpm)}

\* C22: _get_standard_frequency returns the line frequency of the nearest of
\* the six standard speeds, 60 for 3500, 1760 and 1160 and 50 for 2900, 1500
\* and 950; of two nearest speeds it takes the higher one, listed first
C22_NearestStandardSpeed ==
    closest # None =>
        /\ closest[1] = SetMax(Nearest(rpm_arg))
        /\ closest[2] = (IF closest[1] \in {3500, 1760, 1160} THEN 60 ELSE 50)
        /\ closest[2] = get_standard_frequency(rpm_arg)
        /\ closest[2] \in {50, 60}

\* 3200 rpm, as far from 3500 as from 2900
C22_Witness ==
    /\ rpm_arg = 3200
    /\ Nearest(rpm_arg) = {2900, 3500}
    /\ closest = <<3500, 60>>

(***************************************************************************)
(* The bracket of interpolate_curve, checked under SpecInterp.             *)
(***************************************************************************)
\* C27: for n >= 2 curves and every target, the bracket indices after line
\* 124 are 0 <= upper_idx < lower_idx <= n - 1 with lower_idx = upper_idx + 1,
\* two neighbours of the descending order, and upper_diameter >= lower_diameter
C27_BracketAdjacent ==
    bracketed =>
        /\ 0 <= upper_idx
        /\ upper_idx < lower_idx
        /\ lower_idx <= Len(curves_data) - 1
        /\ lower_idx = upper_idx + 1
        /\ upper_diameter >= lower_diameter
        /\ \A i \in 1..(Len(sorted_trims) - 1) : sorted_trims[i] >= sorted_trims[i + 1]

\* three curves, two of them of one trim, and a target between the trims
C27_Witness ==
    /\ bracketed
    /\ Len(curves_data) = 3
    /\ ~DistinctTrims
    /\ \E a, b \in TrimSet : a < target_diameter /\ target_diameter < b
    /\ upper_idx = 1 /\ lower_idx = 2
    /\ upper_diameter > lower_diameter

(***************************************************************************)
(* The power array of interpolate_curve, checked under SpecInterp.         *)
(***************************************************************************)
\* C24: the power of a returned curve is None or an array as long as flow
\* and head; it is None when the upper or the lower curve has no power
\* reading, and when an interp1d of the powers raises it is None as a whole
\* while flow and head are returned
C24_PowerWholeOrNone ==
    outcome = "curve" =>
        /\ Len(result.head) = Len(result.flow)
        /\ IF result.power_is_none THEN result.power = <<>>
           ELSE Len(result.power) = Len(result.flow)
        /\ (Len(upper_curve.power) = 0 \/ Len(lower_curve.power) = 0)
               => result.power_is_none
        /\ (Interp1dRaises(upper_curve.power) \/ Interp1dRaises(lower_curve.power))
               => result.power_is_none /\ Len(result.flow) >= MinBlended

\* both curves have power readings, one of them a single reading
C24_Witness ==
    /\ outcome = "curve"
    /\ Len(upper_curve.power) > 0 /\ Len(lower_curve.power) > 0
    /\ Interp1dRaises(upper_curve.power) \/ Interp1dRaises(lower_curve.power)
    /\ result.power_is_none
    /\ Len(result.flow) >= MinBlended

(***************************************************************************)
(* The sort of the blended points, checked under SpecInterp.               *)
(***************************************************************************)
\* the orders in which n blended points can be put
Orders(n) ==
    {p \in [1..n -> 1..n] : \A i, j \in 1..n : p[i] = p[j] => i = j}

\* the power blended at the flows that were kept for the blended point j,
\* lines 211-215
PowerOfPoint(j) ==
    Blend(interp1d(SubSeq(lower_curve.flow, 1, Len(lower_curve.power)),
                   lower_curve.power, power_points_lower[j]),
          interp1d(SubSeq(upper_curve.flow, 1, Len(upper_curve.power)),
                   upper_curve.power, power_points_upper[j]),
          factor)

\* C25: the sort by flow puts flow, head, power_points_lower and
\* power_points_upper into one and the same order: entry i of the returned
\* flow, head and power comes from one blended point, the point of flow[i]
C25_OnePermutation ==
    outcome = "curve" =>
        /\ Len(result.flow) = Len(interpolated_flow)
        /\ \E p \in Orders(Len(interpolated_flow)) :
              \A i \in 1..Len(interpolated_flow) :
                  /\ result.flow[i] = interpolated_flow[p[i]]
                  /\ result.head[i] = interpolated_head[p[i]]
                  /\ ~result.power_is_none => result.power[i] = PowerOfPoint(p[i])

\* a returned curve with a power array whose points the sort put into
\* another order
C25_Witness ==
    /\ outcome = "curve"
    /\ ~result.power_is_none
    /\ \E i \in 1..(Len(interpolated_flow) - 1) :
          RLt(interpolated_flow[i + 1], interpolated_flow[i])
    /\ \E i \in 1..Len(result.flow) :
          /\ result.flow[i] # interpolated_flow[i]
          /\ result.head[i] # interpolated_head[i]
          /\ result.power[i] # PowerOfPoint(i)

(***************************************************************************)
(* Properties of save_data, checked under SpecDb.                          *)
(***************************************************************************)
\* C29: a save_data that raises no error leaves exactly the parsed points
\* stored for the selected curve, its earlier points gone and the points of
\* the other curves as they were; with no curve selected, or a text without
\* a valid data point, the points of every curve stay as they were
C29_SaveReplacesPoints ==
    [][ \A id \in CurveIds \cup {NoIdx}, text \in DbTexts :
          save_data(id, text) =>
              IF id = NoIdx \/ parse_data(text) = <<>>
              THEN curve_points' = curve_points
              ELSE db_error' = "" =>
                     /\ curve_points'[id] = parse_data(text)
                     /\ \A other \in CurveIds \ {id} :
                           curve_points'[other] = curve_points[other] ]_vars

(***************************************************************************)
(* The two lists of the interpolated curves, checked under Spec.           *)
(***************************************************************************)
\* an add_interpolated_curve that shows an error and returns: no number in
\* the entry, fewer than 2 cached smoothed curves, or no curve interpolated
FailedAdd(entry) ==
    \/ ~IsFloat(entry)
    \/ Len(last_smoothed_curves) < 2
    \/ interpolate_curve(last_smoothed_curves, last_smoothed_trims, entry.value,
                         MaxNumPoints) = None

ListsAligned ==
    /\ Len(interpolated_curves) = Len(interp_checkboxes)
    /\ \A i \in 1..Len(interpolated_curves) :
          interpolated_curves[i].target_diameter = interp_checkboxes[i][1]

OverlayRefs ==
    SelectSeq(ReducedSpeedRefs(last_smoothed_curves, last_smoothed_trims,
                               interpolated_curves, interp_checkboxes),
              LAMBDA rs_ref : Len(rs_ref.power) > 0)

\* the samples of the reference curve ref above the limit
OverLimitOf(ref) ==
    {i \in 1..Min(Len(ref.flow), Min(Len(ref.head), Len(ref.power))) :
        RLt(power_limit_data.power_limit, ref.power[i])}

\* C21: for every curve of the reduced-speed overlay the tail is the last
\* point of its last polyline, derated from a sample above the limit (for a
\* limit > 0 the last such sample) with the ratio r_tail = (limit / p) ** 0.5
\* of that sample, and the annotation holds the frequency of the rpm times
\* r_tail and r_tail as the fraction of the speed; a curve without a sample
\* above the limit has no polyline, no tail and no annotation
C21_TailOfLastRun ==
    ax_head.reduced_speed # <<>> =>
        /\ Len(ax_head.reduced_speed) = Len(OverlayRefs)
        /\ \A k \in 1..Len(ax_head.reduced_speed) :
              LET line == ax_head.reduced_speed[k]
                  ref == OverlayRefs[k]
                  over == OverLimitOf(ref)
              IN  /\ over = {} => line.runs = <<>>
                  /\ IF line.runs = <<>>
                     THEN line.tail = None /\ line.annotation = None
                     ELSE LET last == line.runs[Len(line.runs)]
                              r == last.flow[Len(last.flow)].r
                          IN  /\ line.tail = <<last.flow[Len(last.flow)],
                                               last.head[Len(last.head)], r>>
                              /\ \E t \in over :
                                    /\ PositiveLimit => t = SetMax(over)
                                    /\ r = SpeedRatio(power_limit_data.power_limit,
                                                      ref.power[t], 2)
                                    /\ line.tail[1] = Scaled(r, 1, ref.flow[t])
                                    /\ line.tail[2] = Scaled(r, 2, ref.head[t])
                              /\ line.annotation # None
                              /\ line.annotation.min_freq =
                                    Scaled(r, 1, R(get_standard_frequency(rpm_menu.value)))
                              /\ line.annotation.pct = Scaled(r, 1, R(100))

\* a curve of the overlay whose last polyline has two points or more, under
\* a limit > 0
C21_Witness ==
    /\ PositiveLimit
    /\ \E k \in 1..Len(ax_head.reduced_speed) :
          /\ ax_head.reduced_speed[k].tail # None
          /\ Len(ax_head.reduced_speed[k].runs[Len(ax_head.reduced_speed[k].runs)].flow) >= 2

\* the interpolated curves whose checkbox is checked, and those of them that
\* have a power array
Visible == {i \in 1..Len(interpolated_curves) : ~Hidden(interp_checkboxes, i)}

VisibleWithPower == {i \in Visible : ~interpolated_curves[i].power_is_none}

\* a plot with a power limit and a smoothed curve
LimitPlotted == power_limit_data # None /\ last_smoothed_curves # <<>>

\* the overlay of one reference curve alone
OverlayOf(ref) == DeratedRuns(ref, power_limit_data.power_limit, 2)

Reinterpolated(td) ==
    interpolate_curve(last_smoothed_curves, last_smoothed_trims, td, MaxNumPoints)

=============================================================================
